---- MODULE Spec2Model ----
(***************************************************************************)
(* The .des level compiler of nethack-data (des_parser.rs): the recursive  *)
(* descent Parser as a state machine.  The Parser's fields are the         *)
(* variables; the Rust call stack of the block-structured handlers         *)
(* (parse_if, parse_for, parse_loop, parse_switch, parse_pct_statement) is  *)
(* the variable stack, one frame per handler that is waiting for its block *)
(* to end, holding that handler's locals.                                  *)
(*                                                                         *)
(* The token vector is the input.  It is not stored: each action reads the *)
(* tokens of one handler step at position pos and the model draws them     *)
(* from small sets.  When a handler peeks at a token and declines it       *)
(* without consuming it (peek() != Else, != Plus, != Flags ...), the kinds *)
(* it ruled out for the token at pos are remembered in excl, so the token  *)
(* vector read by consecutive actions is one consistent vector.            *)
(*                                                                         *)
(* Strings are sequences of one-character strings.  Opcode indices are the *)
(* 0-based indices of the Rust Vec: opcodes[i+1] is the Rust opcodes[i].   *)
(***************************************************************************)
EXTENDS Integers, Sequences, FiniteSets, TLC

VARIABLES
    pos,              \* Parser.pos: tokens consumed so far
    excl,             \* token kinds the parser has peeked for at pos and not found
    pc,               \* where the parser is: "stmt", "level_def", "maze", "done", "error"
    opcodes,          \* Parser.opcodes: the per-level accumulator
    vars,             \* Parser.vars: set of [name, typ, is_array], one per name
    container_depth,  \* Parser.container_depth
    levels,           \* Parser.levels: sequence of [name, opcodes]
    level_name,       \* Parser.level_name
    roomfill,         \* Parser.roomfill
    stack,            \* the handlers waiting for their block to end, innermost last
    ph,               \* history: the jump operand pushes of the accumulator
    sealed,           \* history: ph of each sealed level, parallel to levels
    args,             \* the argument of the free function that is called (lex, scan_map)
    result            \* what that function has returned

vars_all == <<pos, excl, pc, opcodes, vars, container_depth, levels, level_name,
              roomfill, stack, ph, sealed, args, result>>

\* the fields of the Parser
parser_vars == <<pos, excl, pc, opcodes, vars, container_depth, levels, level_name,
                 roomfill, stack, ph, sealed>>

\* Statements and level headers start while pos < MaxPos.
MaxPos == 8

\* A SWITCH takes a further BREAK while it has fewer than MaxBreaks.
MaxBreaks == 1
\* OBJECT, CONTAINER, ROOM and REGION statements start while pos < MaxPlacePos
MaxPlacePos == 15

-----------------------------------------------------------------------------
(* Inputs *)

VarNames == {<<"x">>}
LevelNames == {<<>>, <<"a">>}
\* the values offered to the CASE labels of a SWITCH, each at most once
CaseVals == {1, 2}
PctVals == {75}

TInt(n) == [k |-> "Integer", n |-> n, m |-> 0, s |-> <<>>]
TDice(n, m) == [k |-> "Dice", n |-> n, m |-> m, s |-> <<>>]
TVar(s) == [k |-> "Variable", n |-> 0, m |-> 0, s |-> s]
TPunct(k) == [k |-> k, n |-> 0, m |-> 0, s |-> <<>>]

\* token sequences offered where the grammar has a math expression:
\* $x and $x[0] + 1d2 - 1
ShortExpr == <<TVar(<<"x">>)>>

LongExpr ==
    <<TVar(<<"x">>), TPunct("LBracket"), TInt(0), TPunct("RBracket"),
      TPunct("Plus"), TDice(1, 2), TPunct("Minus"), TInt(1)>>

Exprs == {ShortExpr, LongExpr}

\* the expressions offered to SWITCH [expr]
SwitchExprs == {ShortExpr}

\* token sequences that are no math expression
BadExprs ==
    { <<TPunct("Plus")>>,
      <<TVar(<<"x">>), TPunct("LBracket"), TPunct("RBracket")>>,
      <<TInt(1), TPunct("Minus"), TPunct("Minus")>> }

\* spellings of the comparison operators in the source text
CompareSpellings == {"==", "!=", "<>", "<", "<=", ">", ">="}

\* the conditions offered to IF [left op right]: every spelling of the
\* operator between short operands, and one condition with long operands
Conditions ==
    {[left |-> ShortExpr, sp |-> sp, right |-> ShortExpr] : sp \in CompareSpellings}
    \cup {[left |-> LongExpr, sp |-> "==", right |-> LongExpr]}

\* FLAGS lines: the flag names, and whether a comma follows the last one
FlagInputs ==
    { [names |-> <<"noteleport">>, trailing |-> FALSE],
      [names |-> <<"hardfloor", "premapped">>, trailing |-> TRUE] }

\* the fill of a MAZE header: random, a character (its code), or neither
FillInputs ==
    { [k |-> "Random", c |-> 0], [k |-> "Char", c |-> 67], [k |-> "Other", c |-> 0] }

-----------------------------------------------------------------------------
(* Opcode records: SpLevOpcode { opcode, operand } *)

NoOperand == [t |-> "None", i |-> 0, s |-> <<>>]
IntOperand(v) == [t |-> "Int", i |-> v, s |-> <<>>]
StringOperand(s) == [t |-> "String", i |-> 0, s |-> s]
VariableOperand(s) == [t |-> "Variable", i |-> 0, s |-> s]

Bare(o) == [opcode |-> o, operand |-> NoOperand]
PushInt(v) == [opcode |-> "Push", operand |-> IntOperand(v)]
PushStr(s) == [opcode |-> "Push", operand |-> StringOperand(s)]
PushVar(s) == [opcode |-> "Push", operand |-> VariableOperand(s)]

emit(ops, o) == Append(ops, Bare(o))

emit_push_int(ops, v) == Append(ops, PushInt(v))

emit_push_str(ops, s) == Append(ops, PushStr(s))

starts_with_dollar(name) == Len(name) > 0 /\ name[1] = "$"

\* a name that is passed on as the lexer gave it, without the '$'
DollarNameForgotten(name) == name

DollarName(name) == IF starts_with_dollar(name) THEN name ELSE <<"$">> \o name

emit_push_var(ops, name) == Append(ops, PushVar(DollarName(name)))

emit_var_init(ops, name, count) ==
    emit(emit_push_str(emit_push_int(ops, count), DollarName(name)), "VarInit")

current_offset(ops) == Len(ops)

-----------------------------------------------------------------------------
(* History of the jump operands.  A code buffer c is [ops, ph]: the opcodes *)
(* and, for each Push that carries a jump operand, a record                 *)
(*   [at: its index, kind, n: times written by a patch, target: the offset  *)
(*    the patch was given (-1 while unpatched; for a jump computed at       *)
(*    emission, the offset it was computed for)].                           *)

Code(ops, p) == [ops |-> ops, ph |-> p]

Placeholder(at, kind) == [at |-> at, kind |-> kind, n |-> 0, target |-> -1]

Computed(at, kind, target) == [at |-> at, kind |-> kind, n |-> 0, target |-> target]

Patched(p, at, target) ==
    {IF r.at = at THEN [r EXCEPT !.n = @ + 1, !.target = target] ELSE r : r \in p}

\* Emits Push(Int(idx + 1)); jump_op at idx = current_offset, as every
\* forward jump does, and records the placeholder.
EmitForwardJump(c, jump_op, kind) ==
    LET idx == current_offset(c.ops)
    IN  Code(emit(emit_push_int(c.ops, idx + 1), jump_op),
             c.ph \cup {Placeholder(idx, kind)})

\* A backward jump that goes back by target + 1 opcodes too many:
\* Push(Int(-target - here - 2)), which lands at -target - 1.
EmitBackwardJumpFromTarget(c, jump_op, kind, target) ==
    LET here == current_offset(c.ops)
    IN  Code(emit(emit_push_int(c.ops, 0 - target - here - 2), jump_op),
             c.ph \cup {Computed(here, kind, target)})

\* Emits Push(Int(target - here - 1)); jump_op with here = current_offset,
\* as every backward jump does.
EmitBackwardJump(c, jump_op, kind, target) ==
    LET here == current_offset(c.ops)
    IN  Code(emit(emit_push_int(c.ops, target - here - 1), jump_op),
             c.ph \cup {Computed(here, kind, target)})

\* A patch that writes target - push_idx, forgetting that the stored value
\* is push_idx + 1.
PatchJumpFromPush(c, push_idx) ==
    LET target == current_offset(c.ops)
    IN  IF push_idx < Len(c.ops) /\ c.ops[push_idx + 1].operand.t = "Int"
        THEN Code([c.ops EXCEPT ![push_idx + 1].operand.i = target - push_idx],
                  Patched(c.ph, push_idx, target))
        ELSE c

\* A patch that writes nothing.
PatchJumpSkipped(c, push_idx) ==
    c

\* A patch applied twice.
PatchJumpTwice(c, push_idx) ==
    LET target == current_offset(c.ops)
    IN  IF push_idx < Len(c.ops) /\ c.ops[push_idx + 1].operand.t = "Int"
        THEN Code([c.ops EXCEPT ![push_idx + 1].operand.i = target - (target - @)],
                  Patched(Patched(c.ph, push_idx, target), push_idx, target))
        ELSE c

\* Parser::patch_jump: *val = target - *val on an Int operand.
patch_jump(c, push_idx) ==
    LET target == current_offset(c.ops)
    IN  IF push_idx < Len(c.ops) /\ c.ops[push_idx + 1].operand.t = "Int"
        THEN Code([c.ops EXCEPT ![push_idx + 1].operand.i = target - @],
                  Patched(c.ph, push_idx, target))
        ELSE c

-----------------------------------------------------------------------------
(* Expressions.  A parse result is [ok, ops, rest]: whether the handler     *)
(* returned Ok, the opcodes after it, the tokens it left.                   *)

ParseOk(ops, rest) == [ok |-> TRUE, ops |-> ops, rest |-> rest]

ParseErr(ops, rest) == [ok |-> FALSE, ops |-> ops, rest |-> rest]

KindAt(ts, i) == IF i <= Len(ts) THEN ts[i].k ELSE "Eof"

Drop(ts, n) == SubSeq(ts, n + 1, Len(ts))

parse_integer_or_var(ops, ts) ==
    CASE KindAt(ts, 1) = "Integer" ->
            ParseOk(emit_push_int(ops, ts[1].n), Drop(ts, 1))
      [] KindAt(ts, 1) = "Dice" ->
            ParseOk(emit(emit_push_int(emit_push_int(ops, ts[1].n), ts[1].m), "Dice"),
                    Drop(ts, 1))
      [] KindAt(ts, 1) = "Variable" ->
            IF KindAt(ts, 2) = "LBracket"
            THEN IF KindAt(ts, 3) = "Integer" /\ KindAt(ts, 4) = "RBracket"
                 THEN ParseOk(emit_push_var(emit_push_int(ops, ts[3].n), ts[1].s),
                              Drop(ts, 4))
                 ELSE ParseErr(ops, ts)
            ELSE ParseOk(emit_push_var(ops, ts[1].s), Drop(ts, 1))
      [] OTHER -> ParseErr(ops, ts)

RECURSIVE MathExprLoop(_, _)
MathExprLoop(ops, ts) ==
    IF KindAt(ts, 1) \in {"Plus", "Minus"}
    THEN LET r == parse_integer_or_var(ops, Drop(ts, 1))
         IN  IF r.ok
             THEN MathExprLoop(emit(r.ops, IF ts[1].k = "Plus" THEN "MathAdd" ELSE "MathSub"),
                               r.rest)
             ELSE r
    ELSE ParseOk(ops, ts)

parse_math_expr(ops, ts) ==
    LET r == parse_integer_or_var(ops, ts)
    IN  IF r.ok THEN MathExprLoop(r.ops, r.rest) ELSE r

\* the opcodes of a whole expression e (every token of e consumed)
MathExpr(ops, e) == parse_math_expr(ops, e).ops

WellFormed(e) == LET r == parse_math_expr(<<>>, e) IN r.ok /\ r.rest = <<>>

-----------------------------------------------------------------------------
(* Lexing of the comparison punctuation, and the jump each token compiles to *)

LexCompare(spelling) ==
    CASE spelling = "==" -> "CompareEq"
      [] spelling = "!=" -> "CompareNe"
      [] spelling = "<>" -> "CompareNe"
      [] spelling = "<=" -> "CompareLe"
      [] spelling = "<"  -> "CompareLt"
      [] spelling = ">=" -> "CompareGe"
      [] spelling = ">"  -> "CompareGt"

\* a comparison that jumps when the condition holds, not when it fails
ComparisonOpNotNegated(tok) ==
    CASE tok = "CompareEq" -> "Je"
      [] tok = "CompareNe" -> "Jne"
      [] tok = "CompareLt" -> "Jl"
      [] tok = "CompareLe" -> "Jle"
      [] tok = "CompareGt" -> "Jg"
      [] tok = "CompareGe" -> "Jge"

parse_comparison_op(tok) ==
    CASE tok = "CompareEq" -> "Jne"
      [] tok = "CompareNe" -> "Je"
      [] tok = "CompareLt" -> "Jge"
      [] tok = "CompareLe" -> "Jg"
      [] tok = "CompareGt" -> "Jle"
      [] tok = "CompareGe" -> "Jl"

-----------------------------------------------------------------------------
(* Terrain characters (by character code) and level flags *)

INVALID_TYPE == 127

MAX_TYPE == 36

what_map_char(c) ==
    CASE c = 32  -> 0
      [] c = 35  -> 23
      [] c = 46  -> 24
      [] c = 45  -> 2
      [] c = 124 -> 1
      [] c = 43  -> 22
      [] c = 65  -> 34
      [] c = 66  -> 7
      [] c = 67  -> 35
      [] c = 83  -> 14
      [] c = 72  -> 15
      [] c = 123 -> 27
      [] c = 92  -> 28
      [] c = 75  -> 29
      [] c = 125 -> 17
      [] c = 80  -> 16
      [] c = 76  -> 20
      [] c = 73  -> 32
      [] c = 87  -> 18
      [] c = 84  -> 13
      [] c = 70  -> 21
      [] c = 120 -> MAX_TYPE
      [] OTHER   -> INVALID_TYPE

MAZELEVEL == 32

FlagBit(name) ==
    CASE name = "noteleport" -> 1
      [] name = "hardfloor"  -> 2
      [] name = "premapped"  -> 64

RECURSIVE FlagBits(_)
FlagBits(names) ==
    IF names = <<>> THEN 0
    ELSE LET rest == FlagBits(Tail(names))
             b == FlagBit(Head(names))
         IN  IF (rest \div b) % 2 = 1 THEN rest ELSE rest + b

\* tokens of a FLAGS line: FLAGS ':' then the names and the commas
FlagsTokens(f) ==
    2 + Len(f.names) + (IF Len(f.names) = 0 THEN 0 ELSE Len(f.names) - 1)
      + (IF f.trailing THEN 1 ELSE 0)

\* what parse_flags looked for after its last token and did not find
FlagsExcl(f) == IF Len(f.names) = 0 \/ f.trailing THEN {"FlagType"} ELSE {"Comma"}

parse_flags(ops, f) == emit(emit_push_int(ops, FlagBits(f.names)), "LevelFlags")

\* what may follow a level header: a FLAGS line, or something else
FlagsFollow ==
    {[present |-> TRUE, names |-> f.names, trailing |-> f.trailing] : f \in FlagInputs}
    \cup {[present |-> FALSE, names |-> <<>>, trailing |-> FALSE]}

\* a flags production that emits nothing when no FLAGS line follows
MandatoryFlagsOnlyWhenPresent(ops, fl) ==
    IF fl.present THEN parse_flags(ops, fl) ELSE ops

parse_mandatory_flags(ops, fl) ==
    IF fl.present THEN parse_flags(ops, fl) ELSE emit(emit_push_int(ops, 0), "LevelFlags")

MandatoryFlagsTokens(fl) == IF fl.present THEN FlagsTokens(fl) ELSE 0

MandatoryFlagsExcl(fl) == IF fl.present THEN FlagsExcl(fl) ELSE {"Flags"}

-----------------------------------------------------------------------------
(* Parser state *)

\* no free function is called, or it has not returned
NoCall == [fn |-> "none"]

\* Parser::new
ParserNew ==
    /\ pos = 0
    /\ excl = {}
    /\ pc = "stmt"
    /\ opcodes = <<>>
    /\ vars = {}
    /\ container_depth = 0
    /\ levels = <<>>
    /\ level_name = <<>>
    /\ roomfill = 1
    /\ stack = <<>>
    /\ ph = {}
    /\ sealed = <<>>

\* parse_des: a parser on the token vector, no other call in progress
Init ==
    /\ ParserNew
    /\ args = NoCall
    /\ result = NoCall

\* HashMap::insert: the entry of name is replaced
Insert(vs, name, typ, is_array) ==
    {v \in vs : v.name # name} \cup {[name |-> name, typ |-> typ, is_array |-> is_array]}

\* the fields finish_level works on
Fields ==
    [opcodes |-> opcodes, ph |-> ph, vars |-> vars, container_depth |-> container_depth,
     levels |-> levels, sealed |-> sealed, level_name |-> level_name,
     roomfill |-> roomfill]

finish_level(p) ==
    IF p.level_name # <<>>
    THEN [p EXCEPT !.levels = Append(@, [name |-> p.level_name, opcodes |-> p.opcodes]),
                   !.sealed = Append(@, p.ph),
                   !.opcodes = <<>>,
                   !.ph = {},
                   !.level_name = <<>>,
                   !.vars = {},
                   !.container_depth = 0,
                   !.roomfill = 1]
    ELSE p

\* A frame: a handler waiting for its block (or, for "pct", its statement).
\*   idx     jmp_idx / else_jmp_idx / loop_start / loop_top / check_jmp_idx / if_start
\*   name    var_name of parse_for
\*   cases, dflt, breaks   case_addresses, default_address (-1: None), break_targets
\*   inbody  parse_switch has entered parse_case_body
Frame(kind, idx) ==
    [kind |-> kind, idx |-> idx, name |-> <<>>, cases |-> <<>>, dflt |-> -1,
     breaks |-> <<>>, inbody |-> FALSE]

Top == stack[Len(stack)]

Pop(stk) == SubSeq(stk, 1, Len(stk) - 1)

BlockKinds == {"if", "else", "for", "loop", "container", "room", "region"}

AtTopLevel == stack = <<>>

InBlock == stack # <<>> /\ Top.kind \in BlockKinds

InSwitch == stack # <<>> /\ Top.kind = "switch"

InCaseBody == InSwitch /\ Top.inbody

InPct == stack # <<>> /\ Top.kind = "pct"

\* the arms of parse_statement that are modelled
StatementKinds ==
    {"Flags", "Variable", "If", "For", "Loop", "Switch", "Exit", "Object", "Container",
     "Monster", "Room", "Region", "Shuffle"}

TokenKinds ==
    StatementKinds \cup
    {"Maze", "Level", "Eof", "Percent", "RBrace", "Case", "Default", "Break", "Else",
     "Colon", "Comma", "Plus", "Minus", "LBracket", "RBracket", "LBrace", "Integer",
     "String", "FlagType", "Random", "Char", "To", "Equals", "LParen", "RParen",
     "CurseType", "Trapped", "Peaceful", "Lit"}

\* the token kinds the loop at the current position goes on with
Accepted ==
    IF AtTopLevel THEN StatementKinds \cup {"Maze", "Level", "Eof", "Percent"}
    ELSE IF InBlock THEN StatementKinds \cup {"RBrace", "Percent"}
    ELSE IF InCaseBody THEN StatementKinds \cup {"Case", "Default", "RBrace", "Break", "Percent"}
    ELSE IF InSwitch THEN {"Case", "Default", "RBrace"}
    ELSE StatementKinds

\* the token at pos can be of kind k
CanBe(k) == k \notin excl

\* parse_statement is reached with a token of kind k at pos
AtStatement(k) ==
    /\ pc = "stmt"
    /\ pos < MaxPos
    /\ CanBe(k)
    /\ k \in StatementKinds
    /\ AtTopLevel \/ InBlock \/ InCaseBody \/ InPct

\* A statement has returned: inside parse_pct_statement the wrapper patches
\* its jump and returns too.
StatementDone(c, stk) ==
    IF stk # <<>> /\ stk[Len(stk)].kind = "pct"
    THEN [c |-> patch_jump(c, stk[Len(stk)].idx), stack |-> Pop(stk)]
    ELSE [c |-> c, stack |-> stk]

\* the action's writes: code buffer, frames, n tokens consumed, kinds ruled out
Write(c, stk, n, ex) ==
    /\ opcodes' = c.ops
    /\ ph' = c.ph
    /\ stack' = stk
    /\ pos' = pos + n
    /\ excl' = ex
    /\ UNCHANGED <<args, result>>

Step(c, stk, n, ex) ==
    /\ Write(c, stk, n, ex)
    /\ UNCHANGED <<pc, container_depth, levels, level_name, roomfill, sealed>>

\* what parse_math_expr peeked for behind e and did not find
ExprExcl(e) ==
    IF e[Len(e)].k = "Variable" THEN {"LBracket", "Plus", "Minus"} ELSE {"Plus", "Minus"}

\* a percent condition that pushes 100 before N
PercentConditionSwapped(c, pct) ==
    LET o1 == emit_push_int(c.ops, 100)
        o2 == emit_push_int(o1, pct)
        o3 == emit(o2, "Rn2")
        o4 == emit_push_int(o3, 0)
        o5 == emit(o4, "Cmp")
    IN  [c |-> EmitForwardJump(Code(o5, c.ph), "Jg", "pct"), jmp_idx |-> current_offset(o5)]

emit_percent_condition(c, pct) ==
    LET o1 == emit_push_int(c.ops, pct)
        o2 == emit_push_int(o1, 100)
        o3 == emit(o2, "Rn2")
        o4 == emit_push_int(o3, 0)
        o5 == emit(o4, "Cmp")
    IN  [c |-> EmitForwardJump(Code(o5, c.ph), "Jg", "pct"), jmp_idx |-> current_offset(o5)]

-----------------------------------------------------------------------------
(* Level headers and the top-level loop *)

\* parse_level_def up to the level name: finish_level, LEVEL ':' name
parse_level_def ==
    /\ pc = "stmt" /\ AtTopLevel /\ pos < MaxPos /\ CanBe("Level")
    /\ \E name \in LevelNames :
         LET p == finish_level(Fields)
         IN  /\ opcodes' = p.opcodes /\ ph' = p.ph /\ vars' = p.vars
             /\ container_depth' = p.container_depth /\ levels' = p.levels
             /\ sealed' = p.sealed /\ roomfill' = p.roomfill
             /\ level_name' = name
    /\ pos' = pos + 3
    /\ excl' = {}
    /\ pc' = "level_def"
    /\ UNCHANGED <<stack, args, result>>

\* parse_level_def from there: the mandatory flags production
LevelDefFlags(fl) ==
    /\ pc = "level_def"
    /\ Write(Code(parse_mandatory_flags(opcodes, fl), ph), stack,
             MandatoryFlagsTokens(fl), MandatoryFlagsExcl(fl))
    /\ pc' = "stmt"
    /\ UNCHANGED <<vars, container_depth, levels, level_name, roomfill, sealed>>

parse_level_def_flags == \E fl \in FlagsFollow : LevelDefFlags(fl)

\* parse_maze up to the comma: finish_level, MAZE ':' name ','
parse_maze ==
    /\ pc = "stmt" /\ AtTopLevel /\ pos < MaxPos /\ CanBe("Maze")
    /\ \E name \in LevelNames :
         LET p == finish_level(Fields)
         IN  /\ opcodes' = p.opcodes /\ ph' = p.ph /\ vars' = p.vars
             /\ container_depth' = p.container_depth /\ levels' = p.levels
             /\ sealed' = p.sealed /\ roomfill' = p.roomfill
             /\ level_name' = name
    /\ pos' = pos + 4
    /\ excl' = {}
    /\ pc' = "maze"
    /\ UNCHANGED <<stack, args, result>>

\* fill_val of parse_maze
FillVal(fill) ==
    IF fill.k = "Random" THEN -1
    ELSE IF fill.k = "Char" THEN what_map_char(fill.c)
    ELSE 0

RECURSIVE PushZeros(_, _)
PushZeros(ops, n) == IF n = 0 THEN ops ELSE PushZeros(emit_push_int(ops, 0), n - 1)

MazeInitSingleConversion(ops, fill_val) ==
    LET o2 == IF fill_val = -1
              THEN emit_push_int(emit_push_int(ops, 2), 2)
              ELSE emit_push_int(emit_push_int(ops, 1), fill_val)
        o3 == emit(PushZeros(o2, 6), "InitLevel")
    IN  emit(emit_push_int(o3, MAZELEVEL), "LevelFlags")

\* the InitLevel and LevelFlags(MAZELEVEL) emission of parse_maze
EmitMazeInit(ops, fill_val) ==
    LET o2 == IF fill_val = -1
              THEN emit_push_int(emit_push_int(ops, 2), 2)
              ELSE emit_push_int(emit_push_int(ops, 1), what_map_char(fill_val % 256))
        o3 == emit(PushZeros(o2, 6), "InitLevel")
    IN  emit(emit_push_int(o3, MAZELEVEL), "LevelFlags")

\* parse_maze from there: the fill, InitLevel, LevelFlags, the mandatory flags
MazeFill(fill, fl) ==
    /\ pc = "maze"
    /\ Write(Code(parse_mandatory_flags(EmitMazeInit(opcodes, FillVal(fill)), fl), ph),
             stack,
             (IF fill.k = "Other" THEN 0 ELSE 1) + MandatoryFlagsTokens(fl),
             IF fl.present THEN FlagsExcl(fl)
             ELSE IF fill.k = "Other" THEN {"Flags", "Random", "Char"} ELSE {"Flags"})
    /\ pc' = "stmt"
    /\ UNCHANGED <<vars, container_depth, levels, level_name, roomfill, sealed>>

parse_maze_fill == \E fill \in FillInputs, fl \in FlagsFollow : MazeFill(fill, fl)

\* parse: Eof ends the loop, finish_level, Ok(DesFile { levels })
parse_eof ==
    /\ pc = "stmt" /\ AtTopLevel /\ CanBe("Eof")
    /\ LET p == finish_level(Fields)
       IN  /\ opcodes' = p.opcodes /\ ph' = p.ph /\ vars' = p.vars
           /\ container_depth' = p.container_depth /\ levels' = p.levels
           /\ sealed' = p.sealed /\ roomfill' = p.roomfill
           /\ level_name' = p.level_name
    /\ pc' = "done"
    /\ UNCHANGED <<pos, excl, stack, args, result>>

\* parse: [N%] ':' before a statement at top level
parse_top_percent ==
    /\ pc = "stmt" /\ AtTopLevel /\ pos < MaxPos /\ CanBe("Percent")
    /\ \E pct \in PctVals :
         LET r == emit_percent_condition(Code(opcodes, ph), pct)
         IN  Step(r.c, Append(stack, Frame("pct", r.jmp_idx)), 2, {"Maze", "Level", "Eof"})
    /\ UNCHANGED vars

\* parse: [N%] ':' before MAZE, LEVEL or the end of input; the percent is dropped
parse_top_percent_dropped ==
    /\ pc = "stmt" /\ AtTopLevel /\ pos < MaxPos /\ CanBe("Percent")
    /\ pos' = pos + 2
    /\ excl' = TokenKinds \ {"Maze", "Level", "Eof"}
    /\ UNCHANGED <<pc, opcodes, vars, container_depth, levels, level_name, roomfill,
                   stack, ph, sealed, args, result>>

\* parse_block / parse_case_body: [N%] ':' before a statement
parse_pct_statement ==
    /\ pc = "stmt" /\ (InBlock \/ InCaseBody) /\ pos < MaxPos /\ CanBe("Percent")
    /\ \E pct \in PctVals :
         LET r == emit_percent_condition(Code(opcodes, ph), pct)
         IN  Step(r.c, Append(stack, Frame("pct", r.jmp_idx)), 2, {})
    /\ UNCHANGED vars

-----------------------------------------------------------------------------
(* Statements without a block *)

parse_exit ==
    /\ AtStatement("Exit")
    /\ LET d == StatementDone(Code(emit(opcodes, "Exit"), ph), stack)
       IN  Step(d.c, d.stack, 1, {})
    /\ UNCHANGED vars

\* the scalar arm of parse_variable_assignment: $name = expr
parse_variable_assignment ==
    /\ AtStatement("Variable")
    /\ \E name \in VarNames, e \in Exprs :
         LET c == Code(emit_var_init(MathExpr(opcodes, e), name, 0), ph)
             d == StatementDone(c, stack)
         IN  /\ Step(d.c, d.stack, 2 + Len(e), ExprExcl(e))
             /\ vars' = Insert(vars, name, "Int", FALSE)

\* FLAGS as a statement
parse_flags_statement ==
    /\ AtStatement("Flags")
    /\ \E f \in FlagInputs :
         LET d == StatementDone(Code(parse_flags(opcodes, f), ph), stack)
         IN  Step(d.c, d.stack, FlagsTokens(f), FlagsExcl(f))
    /\ UNCHANGED vars

-----------------------------------------------------------------------------
(* Control flow *)

\* parse_if up to the opening brace, condition [N%]
parse_if_percent ==
    /\ AtStatement("If")
    /\ \E pct \in PctVals :
         LET r == emit_percent_condition(Code(opcodes, ph), pct)
         IN  Step(r.c, Append(stack, Frame("if", r.jmp_idx)), 3, {})
    /\ UNCHANGED vars

\* the opcodes of the condition [left op right]
EmitComparison(c, left, tok, right) ==
    LET o == emit(MathExpr(MathExpr(c.ops, left), right), "Cmp")
    IN  EmitForwardJump(Code(o, c.ph), parse_comparison_op(tok), "if")

\* parse_if up to the opening brace, on IF '[' left op right ']' '{'
IfComparison(cond) ==
    /\ AtStatement("If")
    /\ LET idx == current_offset(MathExpr(MathExpr(opcodes, cond.left), cond.right)) + 1
           c == EmitComparison(Code(opcodes, ph), cond.left, LexCompare(cond.sp), cond.right)
       IN  Step(c, Append(stack, Frame("if", idx)),
                5 + Len(cond.left) + Len(cond.right), {})
    /\ UNCHANGED vars

\* parse_if up to the opening brace, condition [expr op expr]
parse_if_comparison == \E cond \in Conditions : IfComparison(cond)

\* the opcodes of the condition expr (true when not zero)
EmitTruthy(c, e) ==
    LET o == emit(emit_push_int(MathExpr(c.ops, e), 0), "Cmp")
    IN  EmitForwardJump(Code(o, c.ph), "Jne", "if")

\* parse_if up to the opening brace, condition expr
parse_if_truthy ==
    /\ AtStatement("If")
    /\ \E e \in Exprs :
         LET idx == current_offset(MathExpr(opcodes, e)) + 2
         IN  Step(EmitTruthy(Code(opcodes, ph), e), Append(stack, Frame("if", idx)),
                  2 + Len(e), {})
    /\ UNCHANGED vars

\* ELSE that patches the IF jump before it emits its own Push; Jmp
IfElsePatchFirst(c, jmp_idx) == EmitForwardJump(patch_jump(c, jmp_idx), "Jmp", "else")

\* parse_if behind the block when ELSE follows: Jmp placeholder, patch jmp_idx
IfElse(c, jmp_idx) == patch_jump(EmitForwardJump(c, "Jmp", "else"), jmp_idx)

\* parse_if: '}' ELSE '{'
parse_if_else ==
    /\ pc = "stmt" /\ InBlock /\ Top.kind = "if" /\ CanBe("RBrace")
    /\ Step(IfElse(Code(opcodes, ph), Top.idx),
            Append(Pop(stack), Frame("else", current_offset(opcodes))), 3, {})
    /\ UNCHANGED vars

\* parse_if: '}' and no ELSE behind it, or the '}' of the ELSE block
parse_if_end ==
    /\ pc = "stmt" /\ InBlock /\ Top.kind \in {"if", "else"} /\ CanBe("RBrace")
    /\ LET d == StatementDone(patch_jump(Code(opcodes, ph), Top.idx), Pop(stack))
       IN  Step(d.c, d.stack, 1, IF Top.kind = "if" THEN {"Else"} ELSE {})
    /\ UNCHANGED vars

\* a FOR header that stores `$v` before the end value is computed, so that
\* `$v end` is stored second
ForHeaderStoresVarFirst(ops, var_name, start, end) ==
    LET full_name == DollarName(var_name)
        end_var == full_name \o <<" ", "e", "n", "d">>
        step_var == full_name \o <<" ", "s", "t", "e", "p">>
        o1 == emit_var_init(MathExpr(ops, start), var_name, 0)
        o2 == emit_var_init(MathExpr(o1, end), end_var, 0)
        o3 == emit(emit(emit_push_var(emit_push_var(o2, end_var), var_name), "MathSub"),
                   "MathSign")
    IN  emit_var_init(o3, step_var, 0)

\* the header of parse_for: start, end, the three VarInit
EmitForHeader(ops, var_name, start, end) ==
    LET full_name == DollarName(var_name)
        end_var == full_name \o <<" ", "e", "n", "d">>
        step_var == full_name \o <<" ", "s", "t", "e", "p">>
        o1 == MathExpr(MathExpr(ops, start), end)
        o2 == emit_var_init(emit_var_init(o1, end_var, 0), var_name, 0)
        o3 == emit(emit(emit_push_var(emit_push_var(o2, end_var), var_name), "MathSub"),
                   "MathSign")
    IN  emit_var_init(o3, step_var, 0)

\* the tail of parse_for: compare, increment, jump back to loop_start
EmitForTail(c, var_name, loop_start) ==
    LET full_name == DollarName(var_name)
        end_var == full_name \o <<" ", "e", "n", "d">>
        step_var == full_name \o <<" ", "s", "t", "e", "p">>
        o1 == emit(emit_push_var(emit_push_var(c.ops, var_name), end_var), "Cmp")
        o2 == emit(emit_push_var(emit_push_var(o1, step_var), var_name), "MathAdd")
        o3 == emit_var_init(o2, var_name, 0)
    IN  EmitBackwardJump(Code(o3, c.ph), "Jne", "for", loop_start)

\* parse_for up to the opening brace
parse_for ==
    /\ AtStatement("For")
    /\ \E v \in VarNames, start \in Exprs, end \in Exprs :
         LET o == EmitForHeader(opcodes, v, start, end)
         IN  Step(Code(o, ph),
                  Append(stack, [Frame("for", current_offset(o)) EXCEPT !.name = v]),
                  5 + Len(start) + Len(end), {})
    /\ UNCHANGED vars

\* parse_for behind the block
parse_for_end ==
    /\ pc = "stmt" /\ InBlock /\ Top.kind = "for" /\ CanBe("RBrace")
    /\ LET d == StatementDone(EmitForTail(Code(opcodes, ph), Top.name, Top.idx), Pop(stack))
       IN  Step(d.c, d.stack, 1, {})
    /\ vars' = Insert(vars, Top.name, "Int", FALSE)

\* a loop tail whose operand is loop_top - here, one short of the Dec
LoopTailOffByOne(c, loop_top) ==
    LET o == emit(emit_push_int(emit(c.ops, "Copy"), 0), "Cmp")
        here == current_offset(o)
        j == Code(emit(emit_push_int(o, loop_top - here), "Jg"),
                  c.ph \cup {Computed(here, "loop", loop_top)})
    IN  Code(emit(j.ops, "Pop"), j.ph)

\* the tail of parse_loop: Copy; push 0; Cmp; jump back to loop_top; Pop
EmitLoopTail(c, loop_top) ==
    LET o == emit(emit_push_int(emit(c.ops, "Copy"), 0), "Cmp")
        j == EmitBackwardJump(Code(o, c.ph), "Jg", "loop", loop_top)
    IN  Code(emit(j.ops, "Pop"), j.ph)

\* parse_loop up to the opening brace: LOOP '[' expr ']' '{'
parse_loop ==
    /\ AtStatement("Loop")
    /\ \E e \in Exprs :
         LET o == MathExpr(opcodes, e)
         IN  Step(Code(emit(o, "Dec"), ph), Append(stack, Frame("loop", current_offset(o))),
                  4 + Len(e), {})
    /\ UNCHANGED vars

\* parse_loop behind the block
parse_loop_end ==
    /\ pc = "stmt" /\ InBlock /\ Top.kind = "loop" /\ CanBe("RBrace")
    /\ LET d == StatementDone(EmitLoopTail(Code(opcodes, ph), Top.idx), Pop(stack))
       IN  Step(d.c, d.stack, 1, {})
    /\ UNCHANGED vars

\* parse_switch up to the opening brace: SWITCH '[' expr ']' '{'
parse_switch ==
    /\ AtStatement("Switch")
    /\ \E e \in SwitchExprs :
         LET o == MathExpr(opcodes, e)
         IN  Step(EmitForwardJump(Code(o, ph), "Jmp", "check"),
                  Append(stack, Frame("switch", current_offset(o))), 4 + Len(e), {})
    /\ UNCHANGED vars

\* parse_switch: CASE n ':'
parse_switch_case ==
    /\ pc = "stmt" /\ InSwitch /\ CanBe("Case")
    /\ \E val \in CaseVals \ {Top.cases[i][1] : i \in 1..Len(Top.cases)} :
         Step(Code(opcodes, ph),
              Append(Pop(stack),
                     [Top EXCEPT !.cases = Append(@, <<val, current_offset(opcodes)>>),
                                 !.inbody = TRUE]),
              3, {})
    /\ UNCHANGED vars

\* parse_switch: DEFAULT ':'
parse_switch_default ==
    /\ pc = "stmt" /\ InSwitch /\ (Top.dflt = -1 \/ pos < MaxPos) /\ CanBe("Default")
    /\ Step(Code(opcodes, ph),
            Append(Pop(stack),
                   [Top EXCEPT !.dflt = current_offset(opcodes), !.inbody = TRUE]),
            2, {})
    /\ UNCHANGED vars

\* parse_case_body with a BREAK that is peeked and not consumed
parse_case_break_unconsumed ==
    /\ pc = "stmt" /\ InCaseBody /\ Len(Top.breaks) < MaxBreaks /\ CanBe("Break")
    /\ Step(EmitForwardJump(Code(opcodes, ph), "Jmp", "break"),
            Append(Pop(stack), [Top EXCEPT !.breaks = Append(@, current_offset(opcodes))]),
            0, {})
    /\ UNCHANGED vars

\* parse_case_body: BREAK
parse_case_break ==
    /\ pc = "stmt" /\ InCaseBody /\ Len(Top.breaks) < MaxBreaks /\ CanBe("Break")
    /\ Step(EmitForwardJump(Code(opcodes, ph), "Jmp", "break"),
            Append(Pop(stack), [Top EXCEPT !.breaks = Append(@, current_offset(opcodes))]),
            1, {})
    /\ UNCHANGED vars

\* parse_switch: the compare-and-jump of each case, in case_addresses order
RECURSIVE EmitCaseChecks(_, _)
EmitCaseChecks(c, cases) ==
    IF cases = <<>> THEN c
    ELSE LET o == emit(emit_push_int(emit(c.ops, "Copy"), Head(cases)[1]), "Cmp")
         IN  EmitCaseChecks(EmitBackwardJump(Code(o, c.ph), "Je", "case", Head(cases)[2]),
                            Tail(cases))

\* parse_switch: every break target gets end_offset - *val
RECURSIVE PatchBreaks(_, _, _)
PatchBreaks(c, break_targets, end_offset) ==
    IF break_targets = <<>> THEN c
    ELSE LET idx == Head(break_targets)
             c1 == IF idx < Len(c.ops) /\ c.ops[idx + 1].operand.t = "Int"
                   THEN Code([c.ops EXCEPT ![idx + 1].operand.i = end_offset - @],
                             Patched(c.ph, idx, end_offset))
                   ELSE c
         IN  PatchBreaks(c1, Tail(break_targets), end_offset)

\* a check section whose BREAK jumps land on the Pop, not behind it
SwitchChecksBreakToPop(c, f) ==
    LET c1 == patch_jump(c, f.idx)
        c2 == EmitCaseChecks(c1, f.cases)
        c3 == IF f.dflt # -1 THEN EmitBackwardJump(c2, "Jmp", "default", f.dflt) ELSE c2
        c4 == Code(emit(c3.ops, "Pop"), c3.ph)
    IN  PatchBreaks(c4, f.breaks, current_offset(c3.ops))

\* parse_switch behind the closing brace: the check section
EmitSwitchChecks(c, f) ==
    LET c1 == patch_jump(c, f.idx)
        c2 == EmitCaseChecks(c1, f.cases)
        c3 == IF f.dflt # -1 THEN EmitBackwardJump(c2, "Jmp", "default", f.dflt) ELSE c2
        c4 == Code(emit(c3.ops, "Pop"), c3.ph)
    IN  PatchBreaks(c4, f.breaks, current_offset(c4.ops))

\* parse_switch: '}'
parse_switch_end ==
    /\ pc = "stmt" /\ InSwitch /\ CanBe("RBrace")
    /\ LET d == StatementDone(EmitSwitchChecks(Code(opcodes, ph), Top), Pop(stack))
       IN  Step(d.c, d.stack, 1, {})
    /\ UNCHANGED vars

-----------------------------------------------------------------------------
(* Placement: OBJECT, CONTAINER, MONSTER, ROOM, REGION *)

\* `as i16`
AsI16(n) == LET m == n % 65536 IN IF m >= 32768 THEN m - 65536 ELSE m

CoordOperand(x, y, is_random, flags) ==
    [t |-> "Coord", x |-> x, y |-> y, is_random |-> is_random, flags |-> flags]

ObjOperand(class, id) == [t |-> "Obj", class |-> class, id |-> id]

MonstOperand(class, id) == [t |-> "Monst", class |-> class, id |-> id]

emit_push_coord(ops, x, y, is_random, flags) ==
    Append(ops, [opcode |-> "Push", operand |-> CoordOperand(x, y, is_random, flags)])

emit_push_obj(ops, class, id) ==
    Append(ops, [opcode |-> "Push", operand |-> ObjOperand(class, id)])

emit_push_monst(ops, class, id) ==
    Append(ops, [opcode |-> "Push", operand |-> MonstOperand(class, id)])

SpObjVarFlag_Curse == 1
SpObjVarFlag_Trapped == 9
SpObjVarFlag_Coord == 14
SpObjVarFlag_End == 15
SpMonVarFlag_Peaceful == 0
SpMonVarFlag_End == 16

\* parse_statement is reached with a token of kind k at pos (placement)
AtPlacement(k) ==
    /\ pc = "stmt"
    /\ pos < MaxPlacePos
    /\ CanBe(k)
    /\ k \in StatementKinds
    /\ AtTopLevel \/ InBlock \/ InCaseBody \/ InPct

\* the coordinates offered where the grammar has coord_or_var:
\* random and (1,2)
CoordInputs == { [k |-> "Random", x |-> 0, y |-> 0], [k |-> "LParen", x |-> 1, y |-> 2] }

parse_coord_or_var(ops, co) ==
    CASE co.k = "Random" -> emit_push_coord(ops, -1, -1, TRUE, 0)
      [] co.k = "LParen" -> emit_push_coord(ops, AsI16(co.x), AsI16(co.y), FALSE, 0)

CoordTokens(co) == IF co.k = "Random" THEN 1 ELSE 5

\* the object specifiers offered: '(' and random
ObjSpecs == { [k |-> "Char", c |-> 40], [k |-> "Random", c |-> 0] }

parse_object_or_var(ops, spec) ==
    CASE spec.k = "Char" -> emit_push_obj(ops, AsI16(spec.c), -1)
      [] spec.k = "Random" -> emit_push_obj(ops, 255, -11)

\* the modifiers offered: none, or `, blessed`
RECURSIVE parse_object_modifiers(_, _)
parse_object_modifiers(ops, mods) ==
    IF mods = <<>> THEN ops
    ELSE parse_object_modifiers(
             emit_push_int(emit_push_int(ops, 1), SpObjVarFlag_Curse), Tail(mods))

\* OBJECT statements: the specifier, the coordinate ("None" when the source
\* has none) and the modifiers
NoCoord == [k |-> "None", x |-> 0, y |-> 0]

ObjectInputs ==
    { [spec |-> [k |-> "Char", c |-> 40], coord |-> NoCoord, mods |-> <<>>],
      [spec |-> [k |-> "Char", c |-> 40], coord |-> NoCoord, mods |-> <<"blessed">>],
      [spec |-> [k |-> "Random", c |-> 0], coord |-> [k |-> "Random", x |-> 0, y |-> 0],
       mods |-> <<>>],
      [spec |-> [k |-> "Char", c |-> 40], coord |-> [k |-> "LParen", x |-> 1, y |-> 2],
       mods |-> <<>>] }

ObjectTokens(in) ==
    3 + (IF in.coord.k = "None" THEN 0 ELSE 1 + CoordTokens(in.coord)) + 2 * Len(in.mods)

\* an OBJECT whose count never has bit 0 set
EmitObjectCountZero(ops, depth, in) ==
    LET o1 == emit_push_int(parse_object_or_var(ops, in.spec), SpObjVarFlag_End)
        o2 == IF in.coord.k # "None"
              THEN emit_push_int(parse_coord_or_var(o1, in.coord), SpObjVarFlag_Coord)
              ELSE IF ~(depth > 0)
              THEN emit_push_int(emit_push_coord(o1, -1, -1, TRUE, 0), SpObjVarFlag_Coord)
              ELSE o1
        o3 == parse_object_modifiers(o2, in.mods)
    IN  emit(emit_push_int(o3, 0), "Object")

\* the opcodes of parse_object at container depth depth
EmitObject(ops, depth, in) ==
    LET o1 == emit_push_int(parse_object_or_var(ops, in.spec), SpObjVarFlag_End)
        o2 == IF in.coord.k # "None"
              THEN emit_push_int(parse_coord_or_var(o1, in.coord), SpObjVarFlag_Coord)
              ELSE IF ~(depth > 0)
              THEN emit_push_int(emit_push_coord(o1, -1, -1, TRUE, 0), SpObjVarFlag_Coord)
              ELSE o1
        o3 == parse_object_modifiers(o2, in.mods)
        cnt == IF depth > 0 THEN 1 ELSE 0
    IN  emit(emit_push_int(o3, cnt), "Object")

ObjectStatement(in) ==
    /\ AtPlacement("Object")
    /\ LET d == StatementDone(Code(EmitObject(opcodes, container_depth, in), ph), stack)
       IN  Step(d.c, d.stack, ObjectTokens(in), {"Comma"})
    /\ UNCHANGED vars

parse_object == \E in \in ObjectInputs : ObjectStatement(in)

\* CONTAINER statements: the specifier, trapped (-1 when the source has
\* neither trapped nor not_trapped) and the coordinate
ContainerInputs ==
    { [spec |-> [k |-> "Char", c |-> 40], trapped |-> -1,
       coord |-> [k |-> "Random", x |-> 0, y |-> 0]],
      [spec |-> [k |-> "Random", c |-> 0], trapped |-> 1,
       coord |-> [k |-> "LParen", x |-> 1, y |-> 2]] }

ContainerTokens(in) == 5 + (IF in.trapped >= 0 THEN 2 ELSE 0) + CoordTokens(in.coord)

\* the opcodes of parse_container up to the opening brace
EmitContainer(ops, depth, in) ==
    LET o1 == emit_push_int(parse_object_or_var(ops, in.spec), SpObjVarFlag_End)
        o2 == emit_push_int(parse_coord_or_var(o1, in.coord), SpObjVarFlag_Coord)
        o3 == IF in.trapped >= 0
              THEN emit_push_int(emit_push_int(o2, in.trapped), SpObjVarFlag_Trapped)
              ELSE o2
        cnt == 2 + (IF depth > 0 THEN 1 ELSE 0)
    IN  emit(emit_push_int(o3, cnt), "Object")

\* parse_container up to the opening brace
parse_container ==
    /\ AtPlacement("Container")
    /\ \E in \in ContainerInputs :
         Write(Code(EmitContainer(opcodes, container_depth, in), ph),
               Append(stack, Frame("container", current_offset(opcodes))),
               ContainerTokens(in), {})
    /\ container_depth' = container_depth + 1
    /\ UNCHANGED <<pc, vars, levels, level_name, roomfill, sealed>>

\* a closing brace that leaves container_depth as it is
ContainerCloseKeepsDepth(depth) == depth

\* container_depth -= 1; the u32 would underflow where this is negative
ContainerClose(depth) == depth - 1

\* parse_container behind the block
parse_container_end ==
    /\ pc = "stmt" /\ InBlock /\ Top.kind = "container" /\ CanBe("RBrace")
    /\ LET d == StatementDone(Code(emit(opcodes, "PopContainer"), ph), Pop(stack))
       IN  Write(d.c, d.stack, 1, {})
    /\ container_depth' = ContainerClose(container_depth)
    /\ UNCHANGED <<pc, vars, levels, level_name, roomfill, sealed>>

\* room_type_to_int of the room type offered, "ordinary"
room_type_to_int(s) == IF s = "throne" THEN 2 ELSE 0

\* ROOM: "ordinary", random, random, random, random {
EmitRoom(ops) ==
    LET room_type == room_type_to_int("ordinary")
        flags == 1
        o1 == emit_push_int(emit_push_int(emit_push_int(ops, room_type), 100), -1)
        o2 == emit_push_int(emit_push_int(emit_push_int(o1, flags), -1), -1)
        o3 == emit_push_int(emit_push_int(o2, -1), -1)
        o4 == emit_push_int(emit_push_int(o3, -1), -1)
    IN  emit(o4, "Room")

\* parse_room up to the opening brace
parse_room ==
    /\ AtPlacement("Room")
    /\ Step(Code(EmitRoom(opcodes), ph), Append(stack, Frame("room", current_offset(opcodes))),
            12, {})
    /\ UNCHANGED vars

\* parse_room behind the block
parse_room_end ==
    /\ pc = "stmt" /\ InBlock /\ Top.kind = "room" /\ CanBe("RBrace")
    /\ LET d == StatementDone(Code(emit(opcodes, "EndRoom"), ph), Pop(stack))
       IN  Step(d.c, d.stack, 1, {})
    /\ UNCHANGED vars

\* REGION: $x, lit, "ordinary"
EmitRegion(ops, name) ==
    LET o1 == emit_push_var(ops, name)
        o2 == emit_push_int(emit_push_int(emit_push_int(o1, 1), room_type_to_int("ordinary")), 0)
    IN  emit(o2, "Region")

\* parse_region with a block: up to the opening brace
parse_region ==
    /\ AtPlacement("Region")
    /\ \E name \in VarNames :
         Step(Code(EmitRegion(opcodes, name), ph),
              Append(stack, Frame("region", current_offset(opcodes))), 8, {})
    /\ UNCHANGED vars

\* parse_region without a block
parse_region_plain ==
    /\ AtPlacement("Region")
    /\ \E name \in VarNames :
         LET d == StatementDone(Code(EmitRegion(opcodes, name), ph), stack)
         IN  Step(d.c, d.stack, 7, {"Comma", "LBrace"})
    /\ UNCHANGED vars

\* parse_region behind the block
parse_region_end ==
    /\ pc = "stmt" /\ InBlock /\ Top.kind = "region" /\ CanBe("RBrace")
    /\ LET d == StatementDone(Code(opcodes, ph), Pop(stack))
       IN  Step(d.c, d.stack, 1, {})
    /\ UNCHANGED vars

-----------------------------------------------------------------------------
(* MONSTER, and the name table behind it *)

UpperCase ==
    <<"A", "B", "C", "D", "E", "F", "G", "H", "I", "J", "K", "L", "M", "N", "O", "P", "Q", "R", "S", "T", "U", "V", "W", "X", "Y", "Z">>

LowerCase ==
    <<"a", "b", "c", "d", "e", "f", "g", "h", "i", "j", "k", "l", "m", "n", "o", "p", "q", "r", "s", "t", "u", "v", "w", "x", "y", "z">>

\* char::to_lowercase on the ASCII letters
LowerChar(c) ==
    IF \E i \in 1..26 : UpperCase[i] = c
    THEN LowerCase[CHOOSE i \in 1..26 : UpperCase[i] = c]
    ELSE c

\* str::to_lowercase
to_lowercase(s) == [i \in 1..Len(s) |-> LowerChar(s[i])]

\* An excerpt of the ordered table MONSTERS (name, class symbol as a char
\* code); the index of an entry is its position in the excerpt, from 0
MONSTERS ==
    << [name |-> <<"g", "i", "a", "n", "t", " ", "a", "n", "t">>, symbol |-> 97],
       [name |-> <<"w", "e", "r", "e", "w", "o", "l", "f">>, symbol |-> 100],
       [name |-> <<"w", "e", "r", "e", "w", "o", "l", "f">>, symbol |-> 64],
       [name |-> <<"W", "i", "z", "a", "r", "d", " ", "o", "f", " ", "Y", "e", "n", "d", "o", "r">>, symbol |-> 64] >>

\* a lookup scan of get_monster_id from index i on: norm is applied to the
\* table's names -- identity in the first pass, to_lowercase in the second
RECURSIVE MonsterScan(_, _, _, _)
MonsterScan(i, name, class_char, lower) ==
    IF i > Len(MONSTERS) THEN -1
    ELSE LET m == MONSTERS[i]
         IN  IF class_char # 0 /\ m.symbol # class_char
             THEN MonsterScan(i + 1, name, class_char, lower)
             ELSE IF (IF lower THEN to_lowercase(m.name) ELSE m.name) = name
             THEN i - 1
             ELSE MonsterScan(i + 1, name, class_char, lower)

\* a lookup that does not filter by the class symbol
MonsterIdAnyClass(name, class_char) ==
    LET exact == MonsterScan(1, name, 0, FALSE)
    IN  IF exact # -1 THEN exact ELSE MonsterScan(1, to_lowercase(name), 0, TRUE)

\* get_monster_id(..).unwrap_or(-1)
get_monster_id(name, class_char) ==
    LET exact == MonsterScan(1, name, class_char, FALSE)
    IN  IF exact # -1 THEN exact
        ELSE MonsterScan(1, to_lowercase(name), class_char, TRUE)

\* the monster specifiers offered: ('c', "name"), 'c' and random
MonsterSpecs ==
    { [k |-> "LParen", c |-> 64, name |-> <<"W", "i", "z", "a", "r", "d", " ", "o", "f", " ", "Y", "e", "n", "d", "o", "r">>],
      [k |-> "LParen", c |-> 64, name |-> <<"w", "i", "z", "a", "r", "d", " ", "o", "f", " ", "y", "e", "n", "d", "o", "r">>],
      [k |-> "LParen", c |-> 64, name |-> <<"w", "e", "r", "e", "w", "o", "l", "f">>],
      [k |-> "LParen", c |-> 97, name |-> <<"w", "e", "r", "e", "w", "o", "l", "f">>],
      [k |-> "Char", c |-> 100, name |-> <<>>],
      [k |-> "Random", c |-> 0, name |-> <<>>] }

parse_monster_or_var(ops, spec) ==
    CASE spec.k = "LParen" ->
            emit_push_monst(ops, AsI16(spec.c), get_monster_id(spec.name, spec.c))
      [] spec.k = "Char" -> emit_push_monst(ops, AsI16(spec.c), -1)
      [] spec.k = "Random" -> emit_push_monst(ops, 255, -11)

\* the modifiers offered: none, or `, peaceful`
RECURSIVE parse_monster_modifiers(_, _)
parse_monster_modifiers(ops, mods) ==
    IF mods = <<>> THEN ops
    ELSE parse_monster_modifiers(
             emit_push_int(emit_push_int(ops, 1), SpMonVarFlag_Peaceful), Tail(mods))

\* MONSTER statements: each specifier with (1,2); random with random; and
\* one with a modifier
MonsterInputs ==
    {[spec |-> sp, coord |-> [k |-> "LParen", x |-> 1, y |-> 2], mods |-> <<>>] :
        sp \in MonsterSpecs}
    \cup { [spec |-> [k |-> "Random", c |-> 0, name |-> <<>>],
            coord |-> [k |-> "Random", x |-> 0, y |-> 0], mods |-> <<>>],
           [spec |-> [k |-> "Char", c |-> 100, name |-> <<>>],
            coord |-> [k |-> "Random", x |-> 0, y |-> 0], mods |-> <<"peaceful">>] }

MonsterTokens(in) ==
    3 + (IF in.spec.k = "LParen" THEN 5 ELSE 1) + CoordTokens(in.coord) + 2 * Len(in.mods)

\* the opcodes of parse_monster
EmitMonster(ops, in) ==
    LET o1 == parse_coord_or_var(parse_monster_or_var(ops, in.spec), in.coord)
        o2 == parse_monster_modifiers(emit_push_int(o1, SpMonVarFlag_End), in.mods)
    IN  emit(emit_push_int(o2, 0), "Monster")

MonsterStatement(in) ==
    /\ AtStatement("Monster")
    /\ LET d == StatementDone(Code(EmitMonster(opcodes, in), ph), stack)
       IN  Step(d.c, d.stack, MonsterTokens(in), {"Comma"})
    /\ UNCHANGED vars

parse_monster == \E in \in MonsterInputs : MonsterStatement(in)

-----------------------------------------------------------------------------
(* SHUFFLE and array assignment *)

\* names of Variable tokens: what the lexer collects behind '$'
\* (alphanumeric characters and '_', possibly none)
LexVarNames == {<<>>, <<"x">>, <<"_", "1">>}

\* a SHUFFLE operand that is the name as the lexer gave it
ShuffleNameBare(name) == name

\* var_name of parse_shuffle
ShuffleName(name) == IF starts_with_dollar(name) THEN name ELSE <<"$">> \o name

parse_shuffle ==
    /\ AtStatement("Shuffle")
    /\ \E name \in LexVarNames :
         LET c == Code(emit(emit_push_str(opcodes, ShuffleName(name)), "ShuffleArray"), ph)
             d == StatementDone(c, stack)
         IN  Step(d.c, d.stack, 3, {})
    /\ UNCHANGED vars

\* the elements offered between the braces of an array: 7, 1d2, $x + 1, (1,2)
ElemInt == [k |-> "Integer", e |-> <<TInt(7)>>, co |-> NoCoord]
ElemDice == [k |-> "Dice", e |-> <<TDice(1, 2)>>, co |-> NoCoord]
ElemVar == [k |-> "Variable", e |-> <<TVar(<<"x">>), TPunct("Plus"), TInt(1)>>, co |-> NoCoord]
ElemCoord == [k |-> "LParen", e |-> <<>>, co |-> [k |-> "LParen", x |-> 1, y |-> 2]]

\* the arrays offered: { }, { 7, }, { 1d2, 7 }, { (1,2), $x + 1, 7 }
ArrayInputs ==
    { [elems |-> <<>>, trailing |-> FALSE],
      [elems |-> <<ElemInt>>, trailing |-> TRUE],
      [elems |-> <<ElemDice, ElemInt>>, trailing |-> FALSE],
      [elems |-> <<ElemCoord, ElemVar, ElemInt>>, trailing |-> FALSE] }

ElemTokens(el) == IF el.k = "LParen" THEN CoordTokens(el.co) ELSE Len(el.e)

RECURSIVE ElemsTokens(_)
ElemsTokens(elems) ==
    IF elems = <<>> THEN 0 ELSE ElemTokens(Head(elems)) + ElemsTokens(Tail(elems))

ArrayTokens(a) ==
    4 + ElemsTokens(a.elems) + (IF Len(a.elems) = 0 THEN 0 ELSE Len(a.elems) - 1)
      + (IF a.trailing THEN 1 ELSE 0)

\* an array loop that adds the separators to the count
RECURSIVE ArrayLoopCountsCommas(_, _, _, _)
ArrayLoopCountsCommas(ops, elems, count, var_type) ==
    IF elems = <<>> THEN [ops |-> ops, count |-> count, var_type |-> var_type]
    ELSE LET el == Head(elems)
             o == IF el.k = "LParen" THEN parse_coord_or_var(ops, el.co)
                  ELSE MathExpr(ops, el.e)
         IN  ArrayLoopCountsCommas(o, Tail(elems),
                                   count + (IF Len(elems) > 1 THEN 2 ELSE 1), var_type)

\* the loop of the array arm of parse_variable_assignment over the elements
RECURSIVE ArrayLoop(_, _, _, _)
ArrayLoop(ops, elems, count, var_type) ==
    IF elems = <<>> THEN [ops |-> ops, count |-> count, var_type |-> var_type]
    ELSE LET el == Head(elems)
             o == IF el.k = "LParen" THEN parse_coord_or_var(ops, el.co)
                  ELSE MathExpr(ops, el.e)
             t == CASE el.k = "LParen" -> "Coord"
                    [] el.k \in {"Integer", "Dice"} -> "Int"
                    [] OTHER -> var_type
         IN  ArrayLoop(o, Tail(elems), count + 1, t)

\* the array arm of parse_variable_assignment: $name = { ... }
ArrayAssignment(name, a) ==
    /\ AtStatement("Variable")
    /\ LET r == ArrayLoop(opcodes, a.elems, 0, "Int")
           d == StatementDone(Code(emit_var_init(r.ops, name, r.count), ph), stack)
       IN  /\ Step(d.c, d.stack, ArrayTokens(a), {})
           /\ vars' = Insert(vars, name, r.var_type, TRUE)

parse_array_assignment == \E name \in LexVarNames, a \in ArrayInputs : ArrayAssignment(name, a)

-----------------------------------------------------------------------------
(* Errors: the first Err ends the parse and the Parser is dropped *)

Dropped ==
    /\ pc' = "error"
    /\ opcodes' = <<>> /\ ph' = {} /\ vars' = {} /\ container_depth' = 0
    /\ levels' = <<>> /\ sealed' = <<>> /\ level_name' = <<>> /\ roomfill' = 1
    /\ stack' = <<>> /\ excl' = {}
    /\ UNCHANGED <<pos, args, result>>

\* a token the loop at the current position does not go on with:
\* "unexpected token", "expected CASE, DEFAULT, or '}'", "expected RBrace"
err_unexpected_token ==
    /\ pc = "stmt"
    /\ (TokenKinds \ excl) \ Accepted # {}
    /\ Dropped

\* a statement whose expression does not parse: "expected integer, dice, or variable"
err_expression ==
    /\ \/ AtStatement("If") \/ AtStatement("Loop") \/ AtStatement("Switch")
       \/ AtStatement("Variable") \/ AtStatement("For")
    /\ \E e \in BadExprs : ~WellFormed(e)
    /\ Dropped

\* a header that is not followed through: "expected Colon", "expected string"
err_header ==
    /\ pc \in {"level_def", "maze"}
    /\ Dropped

Next ==
    \/ parse_level_def
    \/ parse_level_def_flags
    \/ parse_maze
    \/ parse_maze_fill
    \/ parse_eof
    \/ parse_top_percent
    \/ parse_top_percent_dropped
    \/ parse_pct_statement
    \/ parse_exit
    \/ parse_variable_assignment
    \/ parse_flags_statement
    \/ parse_if_percent
    \/ parse_if_comparison
    \/ parse_if_truthy
    \/ parse_if_else
    \/ parse_if_end
    \/ parse_for
    \/ parse_for_end
    \/ parse_loop
    \/ parse_loop_end
    \/ parse_switch
    \/ parse_switch_case
    \/ parse_switch_default
    \/ parse_case_break
    \/ parse_switch_end
    \/ err_unexpected_token
    \/ err_expression
    \/ err_header

Spec == Init /\ [][Next]_vars_all

\* The parser on sources made of level headers, placement statements and
\* the block statements around them
NextPlacement ==
    \/ parse_level_def
    \/ parse_level_def_flags
    \/ parse_eof
    \/ parse_object
    \/ parse_container
    \/ parse_container_end
    \/ parse_room
    \/ parse_room_end
    \/ parse_region
    \/ parse_region_plain
    \/ parse_region_end
    \/ parse_if_truthy
    \/ parse_if_else
    \/ parse_if_end
    \/ parse_loop
    \/ parse_loop_end
    \/ parse_for
    \/ parse_for_end
    \/ parse_switch
    \/ parse_switch_case
    \/ parse_switch_default
    \/ parse_case_break
    \/ parse_switch_end
    \/ err_unexpected_token
    \/ err_header

SpecPlacement == Init /\ [][NextPlacement]_vars_all

\* The parser on sources made of level headers, MONSTER, SHUFFLE,
\* assignments, FOR and IF
NextVariables ==
    \/ parse_level_def
    \/ parse_level_def_flags
    \/ parse_eof
    \/ parse_monster
    \/ parse_shuffle
    \/ parse_array_assignment
    \/ parse_variable_assignment
    \/ parse_region_plain
    \/ parse_if_truthy
    \/ parse_if_end
    \/ parse_for
    \/ parse_for_end
    \/ err_unexpected_token
    \/ err_expression
    \/ err_header

SpecVariables == Init /\ [][NextVariables]_vars_all

-----------------------------------------------------------------------------
(* The functions of the module applied to one input each: the input is in
   args, the value returned in result; no parser is running *)

\* char codes of Token::Char offered as MAZE fill: 0..MaxChar
MaxChar == 255

MazeFillCalls == [fn : {"parse_maze"}, c : 0..MaxChar]

\* parse_maze on `MAZE: name, 'c'` from an empty accumulator: fill_val and
\* the InitLevel and LevelFlags emission
maze_fill_call ==
    /\ args.fn = "parse_maze" /\ result = NoCall
    /\ result' = [fn |-> "parse_maze",
                  ops |-> EmitMazeInit(<<>>, FillVal([k |-> "Char", c |-> args.c]))]
    /\ UNCHANGED <<parser_vars, args>>

\* the characters of raw map blocks: '.', '|', 'x', the digit '5', the
\* unmapped 'z', the two-byte U+00E9 and the line feed
MapChars == {46, 124, 120, 53, 122, 233, 10}

\* raw map blocks have up to MaxMapLen characters
MaxMapLen == 4

\* scan_map on a raw block of n characters
ScanMapCalls(n) == [fn : {"scan_map"}, raw : [1..n -> MapChars]]

\* char::is_ascii_digit
is_ascii_digit(c) == c \in 48..57

\* char::len_utf8
len_utf8(c) == IF c < 128 THEN 1 ELSE IF c < 2048 THEN 2 ELSE IF c < 65536 THEN 3 ELSE 4

\* str::len: the length in bytes
RECURSIVE str_len(_)
str_len(s) == IF s = <<>> THEN 0 ELSE len_utf8(Head(s)) + str_len(Tail(s))

\* str::split('\n'): at least one piece
RECURSIVE split_lines(_)
split_lines(s) ==
    IF \A i \in 1..Len(s) : s[i] # 10 THEN <<s>>
    ELSE LET i == CHOOSE k \in 1..Len(s) : s[k] = 10 /\ \A j \in 1..(k - 1) : s[j] # 10
         IN  <<SubSeq(s, 1, i - 1)>> \o split_lines(SubSeq(s, i + 1, Len(s)))

RECURSIVE MaxRowLen(_)
MaxRowLen(rows) ==
    IF rows = <<>> THEN 0
    ELSE LET m == MaxRowLen(Tail(rows))
             n == str_len(Head(rows))
         IN  IF n > m THEN n ELSE m

\* (terrain as u8).wrapping_add(1), INVALID_TYPE taken as STONE
TerrainByte(ch) ==
    LET t == what_map_char(ch)
        terrain == IF t = INVALID_TYPE THEN 0 ELSE t
    IN  ((terrain % 256) + 1) % 256

\* one row: a byte per char, then a 1 for each index in row.len()..max_len
RowBytes(row, max_len) ==
    [i \in 1..Len(row) |-> TerrainByte(row[i])]
    \o [i \in 1..(IF max_len > str_len(row) THEN max_len - str_len(row) ELSE 0) |-> 1]

RECURSIVE RowsBytes(_, _)
RowsBytes(rows, max_len) ==
    IF rows = <<>> THEN <<>>
    ELSE RowBytes(Head(rows), max_len) \o RowsBytes(Tail(rows), max_len)

scan_map(raw) ==
    LET stripped == SelectSeq(raw, LAMBDA c : ~is_ascii_digit(c))
        rows == split_lines(stripped)
        max_len == MaxRowLen(rows)
    IN  [data |-> RowsBytes(rows, max_len), height |-> Len(rows), width |-> max_len]

scan_map_call ==
    /\ args.fn = "scan_map" /\ result = NoCall
    /\ result' = [fn |-> "scan_map", map |-> scan_map(args.raw)]
    /\ UNCHANGED <<parser_vars, args>>

\* input texts of lex are made of up to MaxLexChunks of these pieces
LexChunks ==
    { <<"M", "A", "P">>, <<"E", "N", "D", "M", "A", "P">>, <<"\n">>, <<"\r">>, <<" ">>,
      <<"#">>, <<"\"">>, <<"$">>, <<":">>, <<"@">>,
      <<"M", "A", "P", "\n", "E", "N", "D", "M", "A", "P", "\n">> }

MaxLexChunks == 4

RECURSIVE Flatten(_)
Flatten(ss) == IF ss = <<>> THEN <<>> ELSE Head(ss) \o Flatten(Tail(ss))

\* lex on the text made of n pieces
LexCalls(n) == [fn : {"lex"}, chunks : [1..n -> LexChunks]]

\* U+00A0, a white space character of two UTF-8 bytes
NBSP == "U+00A0"

\* the characters taken by the lookahead behind '['
PctLookahead == 20

\* texts around a bracketed percent literal are made of up to MaxPctChunks
\* of these pieces; Blanks(n) is a run of n blanks
Blanks(n) == [i \in 1..n |-> " "]

PctChunks ==
    { <<"[">>, <<"5">>, <<"%">>, <<"]">>, <<" ">>, <<"-">>, <<"\n">>, <<NBSP>>,
      Blanks(PctLookahead - 2) }

MaxPctChunks == 5

PctCalls(n) == [fn : {"lex"}, chunks : [1..n -> PctChunks]]

\* the decimal digits of i64::MAX
I64MaxDigits ==
    <<"9", "2", "2", "3", "3", "7", "2", "0", "3", "6", "8", "5", "4", "7", "7", "5",
      "8", "0", "7">>

\* texts of numbers, operators and character literals are made of up to
\* MaxNumChunks of these pieces
NumChunks ==
    { I64MaxDigits, <<"0">>, <<"-">>, <<"+">>, <<"d">>, <<"%">>, <<"!">>, <<"=">>,
      <<"'">>, <<"\\">> }

MaxNumChunks == 3

NumCalls(n) == [fn : {"lex"}, chunks : [1..n -> NumChunks]]

\* char::is_alphabetic, char::is_ascii_digit, char::is_alphanumeric and
\* char::is_whitespace on the characters of the pieces
is_alphabetic(c) == c \in {"M", "A", "P", "E", "N", "D", "d"}

Digits == <<"0", "1", "2", "3", "4", "5", "6", "7", "8", "9">>

is_digit(c) == \E i \in 1..10 : Digits[i] = c

is_alphanumeric(c) == is_alphabetic(c) \/ is_digit(c)

is_whitespace(c) == c \in {" ", "\n", "\r", NBSP}

\* the UTF-8 length of a character of the pieces
char_len(c) == IF c = NBSP THEN 2 ELSE 1

RECURSIVE byte_len(_)
byte_len(s) == IF s = <<>> THEN 0 ELSE char_len(Head(s)) + byte_len(Tail(s))

DigitVal(c) == CHOOSE n \in 0..9 : Digits[n + 1] = c

RECURSIVE StripZeros(_)
StripZeros(ds) == IF ds # <<>> /\ Head(ds) = "0" THEN StripZeros(Tail(ds)) ELSE ds

\* a <= b for digit strings of the same length
RECURSIVE DigitsLeq(_, _)
DigitsLeq(a, b) ==
    IF a = <<>> THEN TRUE
    ELSE IF DigitVal(Head(a)) # DigitVal(Head(b)) THEN DigitVal(Head(a)) < DigitVal(Head(b))
    ELSE DigitsLeq(Tail(a), Tail(b))

\* str::parse::<i64> is Ok: an optional sign, one digit or more, and a
\* value from i64::MIN to i64::MAX
ParsesI64(str) ==
    LET signed == str # <<>> /\ Head(str) \in {"-", "+"}
        ds == IF signed THEN Tail(str) ELSE str
        mag == StripZeros(ds)
        max == IF signed /\ Head(str) = "-"
               THEN SubSeq(I64MaxDigits, 1, 18) \o <<"8">> ELSE I64MaxDigits
    IN  /\ ds # <<>>
        /\ \A i \in 1..Len(ds) : is_digit(ds[i])
        /\ \/ Len(mag) < Len(max)
           \/ Len(mag) = Len(max) /\ DigitsLeq(mag, max)

\* Located { value, line, col }
Located(value, line, col) == [value |-> value, line |-> line, col |-> col]

\* the longest prefix of s without a character of Stop
RECURSIVE TakeUntil(_, _)
TakeUntil(s, Stop) ==
    IF s = <<>> \/ Head(s) \in Stop THEN <<>>
    ELSE <<Head(s)>> \o TakeUntil(Tail(s), Stop)

\* the longest prefix of s of alphanumeric characters, '_' and the
\* characters of More
RECURSIVE TakeWord(_, _)
TakeWord(s, More) ==
    IF s = <<>> \/ ~(is_alphanumeric(Head(s)) \/ Head(s) \in More) THEN <<>>
    ELSE <<Head(s)>> \o TakeWord(Tail(s), More)

\* the longest prefix of s of digits
RECURSIVE TakeDigits(_)
TakeDigits(s) ==
    IF s = <<>> \/ ~is_digit(Head(s)) THEN <<>>
    ELSE <<Head(s)>> \o TakeDigits(Tail(s))

\* str::trim
RECURSIVE trim(_)
trim(s) ==
    IF s # <<>> /\ is_whitespace(Head(s)) THEN trim(Tail(s))
    ELSE IF s # <<>> /\ is_whitespace(s[Len(s)]) THEN trim(SubSeq(s, 1, Len(s) - 1))
    ELSE s

\* return Err(LexError::Error { msg })
LexErr(st, msg) == [st EXCEPT !.ok = FALSE, !.rest = <<>>, !.err = msg]

\* s.parse().expect("digits") on a digit run that does not fit an i64: the
\* thread panics, lex returns neither Ok nor Err
LexPanic(st) == [st EXCEPT !.ok = FALSE, !.rest = <<>>, !.err = "panic: digits"]

\* push a token at (line, col) and go on behind n characters
LexPush(st, n, k, str, line, col) ==
    [st EXCEPT !.rest = Drop(@, n), !.col = @ + n,
               !.tokens = Append(@, Located([k |-> k, s |-> str], line, col))]

\* the capture loop of a MAP block: lines are read up to '\n', '\r' or
\* '\r\n' until one trims to ENDMAP; the end of input before that is an Err
RECURSIVE CaptureLines(_, _, _)
CaptureLines(rest, line, map_data) ==
    LET line_buf == TakeUntil(rest, {"\n", "\r"})
        r1 == Drop(rest, Len(line_buf))
        found_newline == r1 # <<>>
        r2 == IF r1 = <<>> THEN r1
              ELSE IF Head(r1) = "\r" /\ Len(r1) >= 2 /\ r1[2] = "\n" THEN Drop(r1, 2)
              ELSE Drop(r1, 1)
    IN  IF trim(line_buf) = <<"E", "N", "D", "M", "A", "P">>
        THEN [ok |-> TRUE, rest |-> r2, line |-> line + 1, map_data |-> map_data]
        ELSE IF ~found_newline
        THEN [ok |-> FALSE, rest |-> r2, line |-> line, map_data |-> map_data]
        ELSE CaptureLines(r2, line + 1, map_data \o line_buf \o <<"\n">>)

LexMapKeepsLine(st, after_word, start_line, start_col) ==
    LET skipped == TakeUntil(after_word, {"\n"})
        r1 == Drop(after_word, Len(skipped))
        had_newline == r1 # <<>>
        cap == CaptureLines(IF had_newline THEN Tail(r1) ELSE r1, start_line, <<>>)
        data == IF cap.map_data # <<>>
                THEN SubSeq(cap.map_data, 1, Len(cap.map_data) - 1) ELSE <<>>
    IN  IF ~cap.ok THEN LexErr(st, "unterminated MAP block")
        ELSE [st EXCEPT !.rest = cap.rest, !.line = start_line, !.col = 1,
                        !.tokens = @ \o <<Located([k |-> "Map", s |-> <<>>],
                                                  start_line, start_col),
                                          Located([k |-> "MapData", s |-> data],
                                                  start_line + 1, 1)>>]

\* the "MAP" arm: the rest of the line, the captured lines, the tokens Map
\* and MapData
LexMap(st, after_word, start_line, start_col) ==
    LET skipped == TakeUntil(after_word, {"\n"})
        r1 == Drop(after_word, Len(skipped))
        had_newline == r1 # <<>>
        cap == CaptureLines(IF had_newline THEN Tail(r1) ELSE r1,
                            IF had_newline THEN start_line + 1 ELSE start_line, <<>>)
        data == IF cap.map_data # <<>>
                THEN SubSeq(cap.map_data, 1, Len(cap.map_data) - 1) ELSE <<>>
    IN  IF ~cap.ok THEN LexErr(st, "unterminated MAP block")
        ELSE [st EXCEPT !.rest = cap.rest, !.line = cap.line, !.col = 1,
                        !.tokens = @ \o <<Located([k |-> "Map", s |-> <<>>],
                                                  start_line, start_col),
                                          Located([k |-> "MapData", s |-> data],
                                                  start_line + 1, 1)>>]

\* the index of the first c in s, 0 if there is none
FirstIndex(s, c) ==
    IF \A i \in 1..Len(s) : s[i] # c THEN 0
    ELSE CHOOSE i \in 1..Len(s) : s[i] = c /\ \A j \in 1..(i - 1) : s[j] # c

\* the '[' arm: [N%] or a bare bracket. pct_end and close_pos are byte
\* offsets (str::find) in the string of the next PctLookahead characters,
\* and total, their sum, is the number of chars.next() calls
LexBracket(st, start_line, start_col) ==
    LET behind == Tail(st.rest)
        saved == SubSeq(behind, 1, IF Len(behind) < PctLookahead THEN Len(behind)
                                   ELSE PctLookahead)
        p == FirstIndex(saved, "%")
        before == SubSeq(saved, 1, p - 1)
        num_str == SelectSeq(before, LAMBDA c : ~is_whitespace(c))
        after == Drop(saved, p)
        q == FirstIndex(after, "]")
        total == byte_len(before) + 1 + byte_len(SubSeq(after, 1, q - 1)) + 1
    IN  IF p > 0 /\ q > 0 /\ ParsesI64(num_str)
        THEN [st EXCEPT !.rest = Drop(@, IF 1 + total > Len(@) THEN Len(@) ELSE 1 + total),
                        !.col = @ + 1 + total,
                        !.tokens = Append(@, Located([k |-> "Percent", s |-> num_str],
                                                     start_line, start_col))]
        ELSE LexPush(st, 1, "LBracket", <<>>, start_line, start_col)

\* the character literal arm: 'x', '\x', and '\' for the backslash
LexChar(st, start_line, start_col) ==
    LET r == Tail(st.rest)
        n == IF r = <<>> THEN 0
             ELSE IF Head(r) # "\\" THEN 1
             ELSE IF Len(r) < 2 THEN 0
             ELSE IF r[2] = "'" THEN 1 ELSE 2
        c == IF n = 0 THEN "" ELSE r[n]
    IN  IF n = 0 \/ Len(r) < n + 1 \/ r[n + 1] # "'"
        THEN LexErr(st, "unterminated char literal")
        ELSE LexPush(st, n + 2, "Char", <<c>>, start_line, start_col)

\* the number arm: '-', '--', a signed integer, NdM, N%
LexNumber(st, start_line, start_col) ==
    LET is_neg == Head(st.rest) = "-"
        r == IF is_neg THEN Tail(st.rest) ELSE st.rest
        ds == TakeDigits(r)
        str == (IF is_neg THEN <<"-">> ELSE <<>>) \o ds
        r2 == Drop(r, Len(ds))
        die_s == TakeDigits(Drop(r2, 1))
    IN  IF is_neg /\ ds = <<>>
        THEN IF r # <<>> /\ Head(r) = "-"
             THEN LexPush(st, 2, "DashDash", <<>>, start_line, start_col)
             ELSE LexPush(st, 1, "Minus", <<>>, start_line, start_col)
        ELSE IF ~ParsesI64(str) THEN LexPanic(st)
        ELSE IF r2 # <<>> /\ Head(r2) = "d"
        THEN LexPush(st, Len(str) + 1 + Len(die_s), "Dice", str \o <<"d">> \o die_s,
                     start_line, start_col)
        ELSE IF r2 # <<>> /\ Head(r2) = "%"
        THEN LexPush(st, Len(str) + 1, "Percent", str, start_line, start_col)
        ELSE LexPush(st, Len(str), "Integer", str, start_line, start_col)

\* the '+' arm: +N or Plus
LexPlus(st, start_line, start_col) ==
    LET ds == TakeDigits(Tail(st.rest))
    IN  IF ds = <<>> THEN LexPush(st, 1, "Plus", <<>>, start_line, start_col)
        ELSE IF ~ParsesI64(ds) THEN LexPanic(st)
        ELSE LexPush(st, 1 + Len(ds), "Integer", ds, start_line, start_col)

\* one turn of the while loop of lex on st.rest # <<>>
LexTurn(st) ==
    LET ch == Head(st.rest)
        start_line == st.line
        start_col == st.col
    IN  CASE ch = "\n" ->
               [st EXCEPT !.rest = Tail(@), !.line = @ + 1, !.col = 1]
          [] ch = "\r" ->
               [st EXCEPT !.rest = IF Len(@) >= 2 /\ @[2] = "\n" THEN Drop(@, 2) ELSE Tail(@),
                          !.line = @ + 1, !.col = 1]
          [] ch = " " ->
               [st EXCEPT !.rest = Tail(@), !.col = @ + 1]
          [] ch = "#" ->
               LET body == TakeUntil(st.rest, {"\n"})
               IN  [st EXCEPT !.rest = Drop(@, Len(body)), !.col = @ + Len(body)]
          [] ch = "\"" ->
               LET body == TakeUntil(Tail(st.rest), {"\""})
               IN  IF Len(body) + 1 = Len(st.rest)
                   THEN LexErr(st, "unterminated string")
                   ELSE [st EXCEPT !.rest = Drop(@, Len(body) + 2),
                                   !.col = @ + Len(body) + 2,
                                   !.tokens = Append(@, Located([k |-> "String", s |-> body],
                                                                start_line, start_col))]
          [] ch = "$" ->
               LET name == TakeWord(Tail(st.rest), {"_"})
               IN  [st EXCEPT !.rest = Drop(@, Len(name) + 1),
                              !.col = @ + Len(name) + 1,
                              !.tokens = Append(@, Located([k |-> "Variable", s |-> name],
                                                           start_line, start_col))]
          [] ch = ":" ->
               [st EXCEPT !.rest = Tail(@), !.col = @ + 1,
                          !.tokens = Append(@, Located([k |-> "Colon", s |-> <<>>],
                                                       start_line, start_col))]
          [] ch = "[" -> LexBracket(st, start_line, start_col)
          [] ch = "]" -> LexPush(st, 1, "RBracket", <<>>, start_line, start_col)
          [] ch = "'" -> LexChar(st, start_line, start_col)
          [] ch = "=" ->
               IF Len(st.rest) >= 2 /\ st.rest[2] = "="
               THEN LexPush(st, 2, "CompareEq", <<>>, start_line, start_col)
               ELSE LexPush(st, 1, "Equals", <<>>, start_line, start_col)
          [] ch = "!" ->
               IF Len(st.rest) >= 2 /\ st.rest[2] = "="
               THEN LexPush(st, 2, "CompareNe", <<>>, start_line, start_col)
               ELSE LexErr(st, "unexpected '!'")
          [] ch = "+" -> LexPlus(st, start_line, start_col)
          [] ch = "-" \/ is_digit(ch) -> LexNumber(st, start_line, start_col)
          [] is_alphabetic(ch) \/ ch = "_" ->
               LET word == TakeWord(st.rest, {"_", "-"})
                   after == [st EXCEPT !.rest = Drop(@, Len(word)), !.col = @ + Len(word)]
               IN  IF word = <<"M", "A", "P">>
                   THEN LexMap(after, after.rest, start_line, start_col)
                   ELSE [after EXCEPT !.tokens = Append(@, Located([k |-> "String", s |-> word],
                                                                   start_line, start_col))]
          [] OTHER ->
               [st EXCEPT !.rest = Tail(@), !.col = @ + 1]

RECURSIVE LexLoop(_)
LexLoop(st) ==
    IF ~st.ok THEN [ok |-> FALSE, tokens |-> <<>>, err |-> st.err]
    ELSE IF st.rest = <<>>
    THEN [ok |-> TRUE, err |-> "",
          tokens |-> Append(st.tokens, Located([k |-> "Eof", s |-> <<>>], st.line, st.col))]
    ELSE LexLoop(LexTurn(st))

\* lex(input): Ok(tokens) or Err
LexStart(input) ==
    [rest |-> input, line |-> 1, col |-> 1, tokens |-> <<>>, ok |-> TRUE, err |-> ""]

lex(input) == LexLoop(LexStart(input))

lex_call ==
    /\ args.fn = "lex" /\ result = NoCall
    /\ result' = [fn |-> "lex", out |-> lex(Flatten(args.chunks))]
    /\ UNCHANGED <<parser_vars, args>>

InitFunctions ==
    /\ ParserNew
    /\ \/ args \in MazeFillCalls
       \/ \E n \in 0..MaxMapLen : args \in ScanMapCalls(n)
       \/ \E n \in 0..MaxLexChunks : args \in LexCalls(n)
       \/ \E n \in 1..MaxPctChunks : args \in PctCalls(n)
       \/ \E n \in 1..MaxNumChunks : args \in NumCalls(n)
    /\ result = NoCall

NextFunctions ==
    \/ maze_fill_call
    \/ scan_map_call
    \/ lex_call

SpecFunctions == InitFunctions /\ [][NextFunctions]_vars_all

-----------------------------------------------------------------------------
(* What is read off a compiled opcode vector *)

JumpOpcodes == {"Jmp", "Jl", "Jle", "Jg", "Jge", "Je", "Jne"}

\* the kinds of jump operand that are emitted as a placeholder and patched
ForwardKinds == {"if", "else", "pct", "check", "break"}

\* the kinds of jump operand that are computed when they are emitted
BackwardKinds == {"loop", "for", "case", "default"}

\* Rust ops[i]
At(ops, i) == ops[i + 1]

IsPushInt(ops, i) ==
    i >= 0 /\ i < Len(ops) /\ At(ops, i).opcode = "Push" /\ At(ops, i).operand.t = "Int"

IsOp(ops, i, o) == i >= 0 /\ i < Len(ops) /\ At(ops, i) = Bare(o)

\* the levels of Ok(DesFile { levels }), each with the history of its jumps
Returned == {[ops |-> levels[i].opcodes, ph |-> sealed[i]] : i \in 1..Len(levels)}

-----------------------------------------------------------------------------
(* C1 *)

\* C1: in every level a successful parse returns, each forward-jump
\* placeholder (IF, ELSE, [N%], SWITCH check, BREAK) has been written by a
\* patch exactly once when its level is sealed; and in the accumulator no
\* placeholder is ever written twice.
C1_PatchedExactlyOnce ==
    /\ \A l \in Returned : \A r \in l.ph : r.kind \in ForwardKinds => r.n = 1
    /\ \A r \in ph : r.n <= 1

\* a returned level that holds an IF with an ELSE around a SWITCH with a BREAK
C1_Witness ==
    /\ pc = "done"
    /\ \E l \in Returned :
         /\ {"if", "else", "check", "break"} \subseteq {r.kind : r \in l.ph}
         /\ \A r \in l.ph : r.kind \in ForwardKinds => r.n = 1

-----------------------------------------------------------------------------
(* C2 *)

\* the jumps of a code buffer whose operand is final: all of a returned
\* level, and in the accumulator all but the placeholders not yet patched
JumpsRelative(c) ==
    \A j \in 0..(Len(c.ops) - 1) :
        At(c.ops, j).opcode \in JumpOpcodes =>
            /\ IsPushInt(c.ops, j - 1)
            /\ \E r \in c.ph :
                 /\ r.at = j - 1
                 /\ r.target = -1 \/ j + At(c.ops, j - 1).operand.i = r.target
                 /\ r.target <= Len(c.ops)

\* C2: every jump opcode at index j is preceded by Push(Int d) at j - 1 and
\* j + d is the offset the jump was emitted for: the offset handed to the
\* patch of a forward jump, the loop top or body start of a backward jump.
C2_JumpsRelativeToPc ==
    /\ \A l \in Returned :
         JumpsRelative(l) /\ \A r \in l.ph : r.target >= 0 /\ r.target <= Len(l.ops)
    /\ JumpsRelative(Code(opcodes, ph))

\* a returned level with a patched forward jump and a backward jump
C2_Witness ==
    /\ pc = "done"
    /\ \E l \in Returned :
         \E f \in l.ph, b \in l.ph :
            /\ f.kind \in ForwardKinds /\ b.kind \in BackwardKinds
            /\ At(l.ops, f.at).operand.i > 0
            /\ At(l.ops, b.at).operand.i < 0

-----------------------------------------------------------------------------
(* C3 *)

\* the final Int operand of the jump operand push r of level l
Operand(l, r) == At(l.ops, r.at).operand.i

\* C3 as stated: in a returned level no placeholder Push at index i holds i + 1.
C3_NoBootstrapValue ==
    \A l \in Returned :
        \A r \in l.ph : r.kind \in ForwardKinds => Operand(l, r) # r.at + 1

\* C3 as amended: in a returned level every placeholder Push at index i has
\* been patched and holds target - (i + 1), with target the offset given to
\* its patch; it holds i + 1 again exactly when target = 2 * (i + 1).
C3_PatchedToDelta ==
    \A l \in Returned :
        \A r \in l.ph :
            r.kind \in ForwardKinds =>
                /\ r.n = 1
                /\ Operand(l, r) = r.target - (r.at + 1)
                /\ Operand(l, r) = r.at + 1 <=> r.target = 2 * (r.at + 1)

\* a returned level in which a patched placeholder holds its bootstrap value
\* and another one does not
C3_Witness ==
    /\ pc = "done"
    /\ \E l \in Returned :
         \E r \in l.ph, q \in l.ph :
            /\ r.kind \in ForwardKinds /\ r.n = 1 /\ Operand(l, r) = r.at + 1
            /\ q.kind \in ForwardKinds /\ q.n = 1 /\ Operand(l, q) # q.at + 1

-----------------------------------------------------------------------------
(* C4 *)

\* C4 as stated: when a MAZE or LEVEL header has been entered, the opcode
\* accumulator is empty, the variable table is empty, container depth is 0
\* and the room-fill default is 1, also when statements came before the
\* first header.
C4_HeaderStartsEmpty ==
    pc \in {"level_def", "maze"} =>
        /\ opcodes = <<>>
        /\ vars = {}
        /\ container_depth = 0
        /\ roomfill = 1

-----------------------------------------------------------------------------
(* C5 *)

\* the jump the claim gives for each spelling of the source operator
C5_NegatedJump(sp) ==
    CASE sp = "==" -> "Jne"
      [] sp = "!=" -> "Je"
      [] sp = "<>" -> "Je"
      [] sp = "<"  -> "Jge"
      [] sp = "<=" -> "Jg"
      [] sp = ">"  -> "Jle"
      [] sp = ">=" -> "Jl"

\* the step appends: left; right; Cmp; Push placeholder; the negated jump
C5_Emission(cond) ==
    LET left == MathExpr(<<>>, cond.left)
        right == MathExpr(<<>>, cond.right)
        cmp == Len(opcodes) + Len(left) + Len(right)
    IN  opcodes' = opcodes \o left \o right
                     \o <<Bare("Cmp"), PushInt(cmp + 2), Bare(C5_NegatedJump(cond.sp))>>

\* C5: IF [left op right] appends the opcodes of left, those of right, Cmp,
\* the placeholder Push and a conditional jump, and the jump is the negation
\* of op: == Jne, != and <> Je, < Jge, <= Jg, > Jle, >= Jl.
C5_IfEmitsNegatedJump ==
    [][\A cond \in Conditions : IfComparison(cond) => C5_Emission(cond)]_vars_all

\* an IF [$x < $x] has been compiled up to its opening brace
C5_Witness ==
    /\ pc = "stmt" /\ InBlock /\ Top.kind = "if"
    /\ IsOp(opcodes, Top.idx - 1, "Cmp")
    /\ IsPushInt(opcodes, Top.idx)
    /\ IsOp(opcodes, Top.idx + 1, "Jge")

-----------------------------------------------------------------------------
(* C6 *)

TopOf(stk) == stk[Len(stk)]

\* j + d for the jump at index j of ops
JumpTarget(ops, j) == j + At(ops, j - 1).operand.i

\* ops2 is ops1 but for the operands at the indices in changed
SameBut(ops1, ops2, changed) ==
    /\ Len(ops2) >= Len(ops1)
    /\ \A i \in 0..(Len(ops1) - 1) : i \notin changed => At(ops2, i) = At(ops1, i)

IfHead == parse_if_percent \/ parse_if_comparison \/ parse_if_truthy

\* the condition ends with Push placeholder; conditional jump, and the body
\* is what follows
C6_Head ==
    LET n == Len(opcodes')
    IN  /\ TopOf(stack').kind = "if" /\ TopOf(stack').idx = n - 2
        /\ At(opcodes', n - 2) = PushInt(n - 1)
        /\ At(opcodes', n - 1).opcode \in JumpOpcodes \ {"Jmp"}

\* ELSE: the body is followed by Push placeholder; Jmp and the conditional
\* jump lands just after that Jmp, where alt begins
C6_Else ==
    LET n == Len(opcodes)
        j == Top.idx + 1
    IN  /\ Len(opcodes') = n + 2
        /\ At(opcodes', n) = PushInt(n + 1)
        /\ IsOp(opcodes', n + 1, "Jmp")
        /\ At(opcodes', j).opcode \in JumpOpcodes \ {"Jmp"}
        /\ JumpTarget(opcodes', j) = n + 2
        /\ SameBut(opcodes, opcodes', {j - 1})
        /\ TopOf(stack').kind = "else" /\ TopOf(stack').idx = n

\* the closing brace: the open jump (the conditional jump without ELSE, the
\* Jmp with ELSE) lands on the first offset after the block
C6_End ==
    LET n == Len(opcodes)
        j == Top.idx + 1
    IN  /\ Len(opcodes') = n
        /\ JumpTarget(opcodes', j) = n
        /\ Top.kind = "else" <=> IsOp(opcodes', j, "Jmp")

\* C6: in IF cond { body } the conditional jump targets the first offset
\* after body; in IF cond { body } ELSE { alt } the body is followed by
\* Push; Jmp, the conditional jump targets the offset just after that Jmp
\* (the first opcode of alt) and the Jmp targets the first offset after alt.
C6_IfElseTargets ==
    [][/\ IfHead => C6_Head
       /\ parse_if_else => C6_Else
       /\ parse_if_end => C6_End]_vars_all

\* an IF with a body, an ELSE and an alt, both blocks not empty, is compiled
C6_Witness ==
    /\ pc = "stmt"
    /\ \E r \in ph, q \in ph :
         /\ r.kind = "if" /\ q.kind = "else" /\ r.n = 1 /\ q.n = 1
         /\ r.target = q.at + 2
         /\ q.at > r.at + 2
         /\ q.target > q.at + 2
         /\ JumpTarget(opcodes, r.at + 1) = q.at + 2
         /\ JumpTarget(opcodes, q.at + 1) = q.target

-----------------------------------------------------------------------------
(* C7 *)

\* [N%] ':' has been read before a statement
PctHead == parse_top_percent \/ parse_pct_statement

\* the statement under the [N%] of frame k returns in this step, and with
\* it parse_pct_statement
PctReturns(k) ==
    /\ pc = "stmt" /\ pc' = "stmt"
    /\ stack[k].kind = "pct"
    /\ Len(stack') = k - 1

\* the prefix appends push N; push 100; Rn2; push 0; Cmp; Push(self_index + 1); Jg
C7_Emission ==
    LET n == Len(opcodes)
    IN  /\ \E pct \in PctVals :
             opcodes' = opcodes \o <<PushInt(pct), PushInt(100), Bare("Rn2"), PushInt(0),
                                     Bare("Cmp"), PushInt(n + 6), Bare("Jg")>>
        /\ TopOf(stack').kind = "pct" /\ TopOf(stack').idx = n + 5

\* C7 as stated: when the statement has been compiled, the operand of the
\* placeholder Push at self_index is after_body - self_index.
C7_OperandAsStated ==
    [][\A k \in 1..Len(stack) :
          PctReturns(k) =>
              At(opcodes', stack[k].idx).operand.i = Len(opcodes') - stack[k].idx]_vars_all

\* C7 as amended: [N%]: emits push N; push 100; Rn2; push 0; Cmp;
\* Push(self_index + 1); Jg and then the statement, and when the statement
\* has been compiled the operand of the Push at self_index is
\* after_body - self_index - 1, the distance from the Jg to after_body.
C7_PctWrapper ==
    [][/\ PctHead => C7_Emission
       /\ \A k \in 1..Len(stack) :
            PctReturns(k) =>
                LET i == stack[k].idx
                IN  /\ At(opcodes', i).operand.i = Len(opcodes') - i - 1
                    /\ JumpTarget(opcodes', i + 1) = Len(opcodes')
                    /\ IsOp(opcodes', i + 1, "Jg")
                    /\ \E pct \in PctVals :
                         SubSeq(opcodes', i - 4, i) =
                           <<PushInt(pct), PushInt(100), Bare("Rn2"), PushInt(0),
                             Bare("Cmp")>>]_vars_all

\* a statement of more than one opcode under [N%] has been compiled
C7_Witness ==
    /\ pc = "stmt"
    /\ \E r \in ph :
         /\ r.kind = "pct" /\ r.n = 1
         /\ r.target > r.at + 3
         /\ At(opcodes, r.at).operand.i = r.target - r.at - 1
         /\ At(opcodes, r.at - 5) = PushInt(75)

-----------------------------------------------------------------------------
(* C8 *)

\* SWITCH [expr] { appends expr; Push PH_check; Jmp
C8_Head ==
    \E e \in SwitchExprs :
        LET expr == MathExpr(<<>>, e)
            n == Len(opcodes) + Len(expr)
        IN  /\ opcodes' = opcodes \o expr \o <<PushInt(n + 1), Bare("Jmp")>>
            /\ TopOf(stack').kind = "switch" /\ TopOf(stack').idx = n

\* a label emits nothing and its body starts at the current offset
C8_Case ==
    /\ opcodes' = opcodes
    /\ Len(TopOf(stack').cases) = Len(Top.cases) + 1
    /\ TopOf(stack').cases[Len(Top.cases) + 1][2] = Len(opcodes)
    /\ SubSeq(TopOf(stack').cases, 1, Len(Top.cases)) = Top.cases

C8_Default == opcodes' = opcodes /\ TopOf(stack').dflt = Len(opcodes)

\* BREAK appends Push placeholder; Jmp
C8_Break ==
    LET n == Len(opcodes)
    IN  /\ opcodes' = opcodes \o <<PushInt(n + 1), Bare("Jmp")>>
        /\ TopOf(stack').breaks = Append(Top.breaks, n)

\* the check section, from the offset n where the last body ends
C8_Checks ==
    LET f == Top
        n == Len(opcodes)
        k == Len(f.cases)
        pop == n + 5 * k + (IF f.dflt # -1 THEN 2 ELSE 0)
    IN  /\ Len(opcodes') = pop + 1
        /\ SameBut(opcodes, opcodes', {f.idx} \cup {f.breaks[b] : b \in 1..Len(f.breaks)}
                                        \cup {q.idx : q \in {stack[x] : x \in 1..Len(stack)}})
        /\ JumpTarget(opcodes', f.idx + 1) = n
        /\ \A c \in 1..k :
             LET at == n + 5 * (c - 1)
             IN  /\ IsOp(opcodes', at, "Copy")
                 /\ At(opcodes', at + 1) = PushInt(f.cases[c][1])
                 /\ IsOp(opcodes', at + 2, "Cmp")
                 /\ IsPushInt(opcodes', at + 3)
                 /\ IsOp(opcodes', at + 4, "Je")
                 /\ JumpTarget(opcodes', at + 4) = f.cases[c][2]
        /\ f.dflt # -1 =>
             /\ IsPushInt(opcodes', pop - 2)
             /\ IsOp(opcodes', pop - 1, "Jmp")
             /\ JumpTarget(opcodes', pop - 1) = f.dflt
        /\ IsOp(opcodes', pop, "Pop")
        /\ \A b \in 1..Len(f.breaks) :
             /\ IsOp(opcodes', f.breaks[b] + 1, "Jmp")
             /\ JumpTarget(opcodes', f.breaks[b] + 1) = pop + 1

\* C8: SWITCH [expr] { ... } emits expr; Push PH_check; Jmp, then the case
\* bodies as they come, then the check section: PH_check targets its first
\* opcode; per CASE N, in source order, Copy; push N; Cmp; Push d; Je with
\* the Je targeting the start of that case's body; with a DEFAULT, Push d;
\* Jmp targeting the default body; then Pop; and the Jmp of every BREAK
\* targets the offset just after the Pop.
C8_SwitchSchema ==
    [][/\ parse_switch => C8_Head
       /\ parse_switch_case => C8_Case
       /\ parse_switch_default => C8_Default
       /\ parse_case_break => C8_Break
       /\ parse_switch_end => C8_Checks]_vars_all

\* a SWITCH with two CASE labels, a DEFAULT and a BREAK has been compiled,
\* and the two case bodies start at different offsets
C8_Witness ==
    /\ pc = "stmt"
    /\ \E chk \in ph, c1 \in ph, c2 \in ph, d \in ph, b \in ph :
         /\ chk.kind = "check" /\ chk.n = 1
         /\ c1.kind = "case" /\ c2.kind = "case" /\ c1.target < c2.target
         /\ d.kind = "default"
         /\ b.kind = "break" /\ b.n = 1
         /\ c1.at = chk.target + 3
         /\ b.target = d.at + 3

-----------------------------------------------------------------------------
(* C9 *)

\* LOOP [expr] { appends the count expression and Dec, the loop top
C9_Head ==
    \E e \in Exprs :
        LET expr == MathExpr(<<>>, e)
        IN  /\ opcodes' = opcodes \o expr \o <<Bare("Dec")>>
            /\ TopOf(stack').kind = "loop"
            /\ TopOf(stack').idx = Len(opcodes) + Len(expr)

\* the closing brace appends Copy; push 0; Cmp; Push d; Jg; Pop
\* with d = top - here - 1
C9_Tail ==
    LET n == Len(opcodes)
        top == Top.idx
        here == n + 3
    IN  /\ Len(opcodes') = n + 6
        /\ SubSeq(opcodes', n + 1, n + 6) =
             <<Bare("Copy"), PushInt(0), Bare("Cmp"), PushInt(top - here - 1),
               Bare("Jg"), Bare("Pop")>>
        /\ JumpTarget(opcodes', here + 1) = top
        /\ IsOp(opcodes', top, "Dec")

\* C9: LOOP [N] { body } emits the count expression, Dec as the loop top,
\* the body, then Copy; push 0; Cmp; Push d; Jg; Pop with d = top - here - 1
\* (here the index of that Push): the Jg jumps back to the Dec and the Pop
\* follows the Jg.
C9_LoopSchema ==
    [][/\ parse_loop => C9_Head
       /\ parse_loop_end => C9_Tail]_vars_all

\* a LOOP with a body that is not empty has been compiled
C9_Witness ==
    /\ pc = "stmt"
    /\ \E r \in ph :
         /\ r.kind = "loop"
         /\ r.at - 3 > r.target + 1
         /\ IsOp(opcodes, r.target, "Dec")
         /\ IsOp(opcodes, r.at + 2, "Pop")

-----------------------------------------------------------------------------
(* C10 *)

\* Push 0; Push name; VarInit
C10_Store(name) == <<PushInt(0), PushStr(name), Bare("VarInit")>>

\* the names of the three variables of FOR $v
C10_Var(v) == <<"$">> \o v

C10_End(v) == <<"$">> \o v \o <<" ", "e", "n", "d">>

C10_Step(v) == <<"$">> \o v \o <<" ", "s", "t", "e", "p">>

\* FOR $v = s TO e { stores `$v end`, `$v`, `$v step`; the top of the loop
\* is the offset after the `$v step` VarInit
C10_Head ==
    \E v \in VarNames, start \in Exprs, end \in Exprs :
        /\ opcodes' = opcodes \o MathExpr(<<>>, start) \o MathExpr(<<>>, end)
                        \o C10_Store(C10_End(v)) \o C10_Store(C10_Var(v))
                        \o <<PushVar(C10_End(v)), PushVar(C10_Var(v)),
                             Bare("MathSub"), Bare("MathSign")>>
                        \o C10_Store(C10_Step(v))
        /\ TopOf(stack').kind = "for"
        /\ TopOf(stack').name = v
        /\ TopOf(stack').idx = Len(opcodes')

\* the closing brace appends the compare, the increment and Push d; Jne
C10_Tail ==
    LET n == Len(opcodes)
        v == Top.name
        top == Top.idx
        d == At(opcodes', n + 9).operand.i
    IN  /\ Len(opcodes') = n + 11
        /\ SubSeq(opcodes', n + 1, n + 9) =
             <<PushVar(C10_Var(v)), PushVar(C10_End(v)), Bare("Cmp"),
               PushVar(C10_Step(v)), PushVar(C10_Var(v)), Bare("MathAdd")>>
             \o C10_Store(C10_Var(v))
        /\ IsPushInt(opcodes', n + 9)
        /\ IsOp(opcodes', n + 10, "Jne")
        /\ d < 0
        /\ JumpTarget(opcodes', n + 10) = top
        /\ SubSeq(opcodes', top - 2, top) = C10_Store(C10_Step(v))
        /\ \E x \in vars' : x.name = v

\* C10: FOR $v = s TO e { body } ends with Push d; Jne where d is negative
\* for every body, the empty one too, and the Jne targets the top of the
\* loop, the first offset after the `$v step` VarInit; the variables stored
\* are named `$v`, `$v end` and `$v step`.
C10_ForSchema ==
    [][/\ parse_for => C10_Head
       /\ parse_for_end => C10_Tail]_vars_all

\* a FOR with a body that is not empty has been compiled
C10_Witness ==
    /\ pc = "stmt"
    /\ \E r \in ph :
         /\ r.kind = "for"
         /\ r.at - 9 > r.target
         /\ At(opcodes, r.at).operand.i < -10
         /\ IsOp(opcodes, r.at + 1, "Jne")

-----------------------------------------------------------------------------
(* C11 *)

\* the opcodes a value on the stack is stored with into the variable name
C11_StoreInto(name) == <<PushInt(0), PushStr(name), Bare("VarInit")>>

\* sign(`$v end` - `$v`) stored into `$v step`
C11_StepOf(v) ==
    <<PushVar(C10_End(v)), PushVar(C10_Var(v)), Bare("MathSub"), Bare("MathSign")>>
    \o C11_StoreInto(C10_Step(v))

\* the tail: compare, increment, Push; Jne
C11_TailIsSchema ==
    LET n == Len(opcodes)
        v == Top.name
    IN  /\ Len(opcodes') = n + 11
        /\ SubSeq(opcodes', n + 1, n + 9) =
             <<PushVar(C10_Var(v)), PushVar(C10_End(v)), Bare("Cmp"),
               PushVar(C10_Step(v)), PushVar(C10_Var(v)), Bare("MathAdd")>>
             \o C11_StoreInto(C10_Var(v))
        /\ IsPushInt(opcodes', n + 9)
        /\ IsOp(opcodes', n + 10, "Jne")

\* C11 as stated: FOR $v = s TO e { emits s, the store of `$v`, then e and
\* the store of `$v end`, then sign(e - s) stored into `$v step`; the closing
\* brace emits load `$v`; load `$v end`; Cmp; load `$v step`; load `$v`;
\* MathAdd; store `$v`; Push; Jne.
C11_OrderAsStated ==
    [][/\ parse_for =>
            \E v \in VarNames, s \in Exprs, e \in Exprs :
                opcodes' = opcodes \o MathExpr(<<>>, s) \o C11_StoreInto(C10_Var(v))
                                   \o MathExpr(<<>>, e) \o C11_StoreInto(C10_End(v))
                                   \o C11_StepOf(v)
       /\ parse_for_end => C11_TailIsSchema]_vars_all

\* C11 (amended): FOR $v = s TO e { emits s, then e, then the store of
\* `$v end` (which takes e from the top of the stack), then the store of
\* `$v` (which takes s), then sign(e - s) stored into `$v step`; the closing
\* brace emits load `$v`; load `$v end`; Cmp; load `$v step`; load `$v`;
\* MathAdd; store `$v`; Push; Jne.
C11_ForOrder ==
    [][/\ parse_for =>
            \E v \in VarNames, s \in Exprs, e \in Exprs :
                opcodes' = opcodes \o MathExpr(<<>>, s) \o MathExpr(<<>>, e)
                                   \o C11_StoreInto(C10_End(v))
                                   \o C11_StoreInto(C10_Var(v))
                                   \o C11_StepOf(v)
       /\ parse_for_end => C11_TailIsSchema]_vars_all

\* a FOR whose start and end expressions differ has been compiled up to its
\* Jne: both values are pushed before the first store
C11_Witness ==
    \E r \in ph :
        /\ r.kind = "for"
        /\ IsOp(opcodes, r.at + 1, "Jne")
        /\ r.target >= 22
        /\ SubSeq(opcodes, r.target - 21, r.target) =
             MathExpr(<<>>, LongExpr) \o MathExpr(<<>>, ShortExpr)
             \o C11_StoreInto(C10_End(<<"x">>)) \o C11_StoreInto(C10_Var(<<"x">>))
             \o C11_StepOf(<<"x">>)

-----------------------------------------------------------------------------
(* C12 *)

\* the bits of the flag names of a FLAGS line
C12_Bits(names) ==
    LET has(n) == \E i \in 1..Len(names) : names[i] = n
    IN  (IF has("noteleport") THEN 1 ELSE 0) + (IF has("hardfloor") THEN 2 ELSE 0)
        + (IF has("premapped") THEN 64 ELSE 0)

\* push(flag bits); LevelFlags, or push 0; LevelFlags without a FLAGS line
C12_Flags(fl) ==
    <<PushInt(IF fl.present THEN C12_Bits(fl.names) ELSE 0), Bare("LevelFlags")>>

\* the InitLevel sequence of a MAZE header with the style and filling given
C12_InitLevel(style, filling) ==
    <<PushInt(style), PushInt(filling), PushInt(0), PushInt(0), PushInt(0), PushInt(0),
      PushInt(0), PushInt(0), Bare("InitLevel"), PushInt(32), Bare("LevelFlags")>>

\* C12: the step that follows a level header appends the flags production
\* and nothing else, whether or not a FLAGS line is there: push(flag bits);
\* LevelFlags with a FLAGS line, push 0; LevelFlags without. After a MAZE
\* header it comes behind the eight InitLevel pushes, InitLevel, push
\* MAZELEVEL, LevelFlags, and the eight pushes of `MAZE: name, random` are
\* [2, 2, 0, 0, 0, 0, 0, 0]. No statement is parsed between the header and
\* this step: from a header the parser either fails or takes this step.
C12_FlagsAfterHeader ==
    [][/\ pc \in {"level_def", "maze"} =>
            \/ pc' = "error"
            \/ pc' = "stmt" /\ Len(opcodes') >= 2
                  /\ At(opcodes', Len(opcodes') - 1) = Bare("LevelFlags")
       /\ \A fl \in FlagsFollow :
            LevelDefFlags(fl) => opcodes' = opcodes \o C12_Flags(fl)
       /\ \A fl \in FlagsFollow :
            MazeFill([k |-> "Random", c |-> 0], fl) =>
                opcodes' = opcodes \o C12_InitLevel(2, 2) \o C12_Flags(fl)
       /\ \A fl \in FlagsFollow, fill \in FillInputs :
            MazeFill(fill, fl) =>
                \E style \in {1, 2}, filling \in 0..127 :
                    opcodes' = opcodes \o C12_InitLevel(style, filling) \o C12_Flags(fl)]_vars_all

\* a level `LEVEL: "a"` with a FLAGS line and a statement behind it, and a
\* level `MAZE: "a", random` without a FLAGS line, have been returned
C12_Witness ==
    /\ \E l \in Returned :
         /\ Len(l.ops) > 2
         /\ SubSeq(l.ops, 1, 2) = <<PushInt(1), Bare("LevelFlags")>>
    /\ \E l \in Returned :
         /\ Len(l.ops) >= 13
         /\ SubSeq(l.ops, 1, 13) = C12_InitLevel(2, 2) \o <<PushInt(0), Bare("LevelFlags")>>

-----------------------------------------------------------------------------
(* C13 *)

\* the CONTAINER blocks that are open: the frames of parse_container
OpenContainers == {i \in 1..Len(stack) : stack[i].kind = "container"}

\* how many Object opcodes of ops open a container (bit 1 of the count)
\* and how many PopContainer opcodes ops has
ContainerObjects(ops) ==
    Cardinality({i \in 1..(Len(ops) - 1) :
                    /\ IsPushInt(ops, i - 1)
                    /\ (At(ops, i - 1).operand.i \div 2) % 2 = 1
                    /\ At(ops, i) = Bare("Object")})

PopContainers(ops) == Cardinality({i \in 1..Len(ops) : ops[i] = Bare("PopContainer")})

C13_Depth ==
    /\ container_depth >= 0
    /\ container_depth = Cardinality(OpenContainers)
    /\ container_depth = ContainerObjects(opcodes) - PopContainers(opcodes)
    /\ \A l \in Returned : ContainerObjects(l.ops) = PopContainers(l.ops)

C13_Steps ==
    /\ parse_container => container_depth' = container_depth + 1
    /\ parse_container_end =>
            /\ container_depth' = container_depth - 1
            /\ Len(opcodes') = Len(opcodes) + 1
            /\ At(opcodes', Len(opcodes)) = Bare("PopContainer")
    /\ container_depth' # container_depth /\ pc' # "error" =>
            parse_container \/ parse_container_end
    /\ levels' # levels /\ pc' # "error" => container_depth = 0 /\ container_depth' = 0

\* C13: the container depth is never negative; it is the number of open
\* CONTAINER blocks: it goes up by one exactly when a CONTAINER block is
\* entered and down by one exactly at that block's closing brace, which
\* emits PopContainer; and it is zero whenever a level is sealed, so that
\* in each returned level the container Objects and the PopContainers
\* pair up. This holds for the CONTAINER blocks nested with IF, LOOP, FOR,
\* SWITCH, ROOM and REGION blocks.
C13_ContainerDepth == []C13_Depth /\ [][C13_Steps]_vars_all

\* a level has been returned in which a CONTAINER was nested in a CONTAINER
\* inside a block with a jump (IF, LOOP, FOR or SWITCH)
C13_Witness ==
    \E l \in Returned :
        /\ \E i \in 1..(Len(l.ops) - 1) :
              At(l.ops, i - 1) = PushInt(3) /\ At(l.ops, i) = Bare("Object")
        /\ \E i \in 1..Len(l.ops) : l.ops[i].opcode \in JumpOpcodes
        /\ PopContainers(l.ops) = 2

-----------------------------------------------------------------------------
(* C14 *)

\* the opcodes the step has appended
Appended == SubSeq(opcodes', Len(opcodes) + 1, Len(opcodes'))

IsCoordPush(o) == o.opcode = "Push" /\ o.operand.t = "Coord"

\* the last two opcodes appended are Push cnt; Object with bit 0 of cnt set
\* iff a CONTAINER block is open
C14_CountBit ==
    LET a == Appended
        n == Len(a)
    IN  /\ n >= 2
        /\ a[n] = Bare("Object")
        /\ a[n - 1].opcode = "Push" /\ a[n - 1].operand.t = "Int"
        /\ (a[n - 1].operand.i % 2 = 1) <=> (OpenContainers # {})

\* C14: every OBJECT statement ends with Push cnt; Object where bit 0 of cnt
\* is set iff the statement is inside at least one open CONTAINER (the
\* Object of a CONTAINER statement too, which also has bit 1 set); and when
\* the source has no coordinate, Push Coord(random); Push 14 (the Coord
\* flag) is emitted behind the End sentinel iff the container depth is 0,
\* and no coordinate is pushed at all otherwise.
C14_ObjectCount ==
    [][/\ parse_object => C14_CountBit
       /\ parse_container =>
            C14_CountBit /\ (Appended[Len(Appended) - 1].operand.i \div 2) % 2 = 1
       /\ \A in \in ObjectInputs :
            ObjectStatement(in) /\ in.coord.k = "None" =>
                LET a == Appended
                IN  /\ a[2] = PushInt(15)
                    /\ container_depth = 0 =>
                          /\ a[3] = [opcode |-> "Push",
                                      operand |-> CoordOperand(-1, -1, TRUE, 0)]
                          /\ a[4] = PushInt(14)
                    /\ container_depth # 0 =>
                          \A i \in 1..Len(a) : ~IsCoordPush(a[i])]_vars_all

\* inside a CONTAINER of a level an OBJECT without coordinate and without
\* modifier has been compiled: End sentinel, count 1, Object
C14_Witness ==
    /\ level_name # <<>>
    /\ container_depth > 0
    /\ Len(opcodes) >= 4
    /\ SubSeq(opcodes, Len(opcodes) - 3, Len(opcodes)) =
         <<[opcode |-> "Push", operand |-> ObjOperand(40, -1)], PushInt(15), PushInt(1),
           Bare("Object")>>

-----------------------------------------------------------------------------
(* C15 *)

\* the names stored in the operands of ops: Variable operands, and the
\* String operand right before a VarInit or a ShuffleArray
StoredNames(ops) ==
    {ops[i].operand.s : i \in {j \in 1..Len(ops) :
                                ops[j].opcode = "Push" /\ ops[j].operand.t = "Variable"}}
    \cup {ops[i - 1].operand.s : i \in {j \in 2..Len(ops) :
                                    ops[j] \in {Bare("VarInit"), Bare("ShuffleArray")}}}

\* C15: every variable name stored in an emitted operand -- the Variable
\* operand of a load, the String name before VarInit, the String operand
\* before ShuffleArray, the derived names `$v end` and `$v step` of FOR --
\* starts with '$', in the accumulator and in every returned level, for the
\* names of the Variable tokens the lexer produces (the empty name too).
C15_NamesStartWithDollar ==
    /\ \A i \in 2..Len(opcodes) :
          opcodes[i] \in {Bare("VarInit"), Bare("ShuffleArray")} =>
              opcodes[i - 1].opcode = "Push" /\ opcodes[i - 1].operand.t = "String"
    /\ \A n \in StoredNames(opcodes) : Len(n) >= 1 /\ n[1] = "$"
    /\ \A l \in Returned : \A n \in StoredNames(l.ops) : Len(n) >= 1 /\ n[1] = "$"

\* a level has been returned with SHUFFLE of the variable with the empty
\* name and an assignment to $_1
C15_Witness ==
    \E l \in Returned :
        /\ <<"$">> \in StoredNames(l.ops)
        /\ <<"$", "_", "1">> \in StoredNames(l.ops)
        /\ \E i \in 1..Len(l.ops) : l.ops[i] = Bare("ShuffleArray")

-----------------------------------------------------------------------------
(* C16 *)

\* what each element offered emits: 7, 1d2, $x + 1, (1,2)
C16_Elem(el) ==
    CASE el.k = "Integer" -> <<PushInt(7)>>
      [] el.k = "Dice" -> <<PushInt(1), PushInt(2), Bare("Dice")>>
      [] el.k = "Variable" -> <<PushVar(<<"$", "x">>), PushInt(1), Bare("MathAdd")>>
      [] el.k = "LParen" -> <<[opcode |-> "Push", operand |-> CoordOperand(1, 2, FALSE, 0)]>>

RECURSIVE C16_Elems(_)
C16_Elems(elems) ==
    IF elems = <<>> THEN <<>> ELSE C16_Elem(Head(elems)) \o C16_Elems(Tail(elems))

-----------------------------------------------------------------------------
(* C17 *)

\* the table indices (from 0) of the entries of class c whose name is name,
\* compared exactly or without regard to case
C17_Matches(name, c, nocase) ==
    {i - 1 : i \in {j \in 1..Len(MONSTERS) :
                      /\ MONSTERS[j].symbol = c
                      /\ IF nocase THEN to_lowercase(MONSTERS[j].name) = to_lowercase(name)
                         ELSE MONSTERS[j].name = name}}

C17_Min(S) == CHOOSE m \in S : \A n \in S : m <= n

\* the id of ('c', "name"): the first exact match, else the first match
\* without regard to case, else -1
C17_Id(name, c) ==
    IF C17_Matches(name, c, FALSE) # {} THEN C17_Min(C17_Matches(name, c, FALSE))
    ELSE IF C17_Matches(name, c, TRUE) # {} THEN C17_Min(C17_Matches(name, c, TRUE))
    ELSE -1

C17_Monst(spec) ==
    CASE spec.k = "LParen" -> MonstOperand(spec.c, C17_Id(spec.name, spec.c))
      [] spec.k = "Char" -> MonstOperand(spec.c, -1)
      [] spec.k = "Random" -> MonstOperand(255, -11)

C17_Coord(co) ==
    IF co.k = "Random" THEN CoordOperand(-1, -1, TRUE, 0)
    ELSE CoordOperand(co.x, co.y, FALSE, 0)

\* C17: MONSTER: spec, coord [, modifiers] emits Push Monst(class, id);
\* Push Coord; Push 16 (the End sentinel); the modifier pushes; Push 0;
\* Monster. For ('c', "name") the id is the table index found under class
\* c (exact match first, then without regard to case), or -1 when the name
\* is not found under that class, and the statement still compiles; for
\* `random` the operand is Monst(class = 255, id = -11), and a `random`
\* coordinate has the random flag set.
C17_MonsterSchema ==
    [][/\ \A in \in MonsterInputs :
            MonsterStatement(in) =>
                Appended = <<[opcode |-> "Push", operand |-> C17_Monst(in.spec)],
                             [opcode |-> "Push", operand |-> C17_Coord(in.coord)],
                             PushInt(16)>>
                           \o (IF in.mods = <<>> THEN <<>> ELSE <<PushInt(1), PushInt(0)>>)
                           \o <<PushInt(0), Bare("Monster")>>
       /\ C17_Id(<<"w", "e", "r", "e", "w", "o", "l", "f">>, 64) = 2
       /\ C17_Id(<<"w", "i", "z", "a", "r", "d", " ", "o", "f", " ", "y", "e", "n", "d", "o", "r">>, 64) = 3
       /\ C17_Id(<<"w", "e", "r", "e", "w", "o", "l", "f">>, 97) = -1]_vars_all

\* a level has been returned with a MONSTER whose name is not in the table
\* under its class (id -1)
C17_Witness ==
    \E l \in Returned :
        \E i \in 1..(Len(l.ops) - 4) :
            /\ l.ops[i] = [opcode |-> "Push", operand |-> MonstOperand(97, -1)]
            /\ l.ops[i + 1] = [opcode |-> "Push", operand |-> CoordOperand(1, 2, FALSE, 0)]
            /\ l.ops[i + 2] = PushInt(16)
            /\ l.ops[i + 4] = Bare("Monster")

-----------------------------------------------------------------------------
(* C18 *)

\* the eight pushes before InitLevel of a solid fill with filling f
C18_InitLevel(f) ==
    <<PushInt(1), PushInt(f), PushInt(0), PushInt(0), PushInt(0), PushInt(0),
      PushInt(0), PushInt(0), Bare("InitLevel")>>

\* the terrain characters of the table of what_map_char
C18_Mapped == {c \in 0..MaxChar : what_map_char(c) # INVALID_TYPE}

\* the claim as stated: f is the second conversion, and it is STONE (0)
\* unless the first-pass code is the code of a mapped terrain character
C18_StoneAsStated ==
    result.fn = "parse_maze" =>
        /\ SubSeq(result.ops, 1, 9)
             = C18_InitLevel(what_map_char(what_map_char(args.c)))
        /\ what_map_char(args.c) \notin C18_Mapped => result.ops[2] = PushInt(0)

\* C18: for MAZE: name, 'c' the InitLevel sequence is [1, f, 0, 0, 0, 0, 0,
\* 0] with f the second conversion of the first-pass code taken as a
\* character, and f is INVALID_TYPE (127) for every fill character except
\* 'I' (first-pass code 32, the blank: f = 0, STONE) and 'C' (first-pass
\* code 35, '#': f = 23, CORR); the vector goes on with push MAZELEVEL;
\* LevelFlags.
C18_MazeFillTwice ==
    result.fn = "parse_maze" =>
        /\ Len(result.ops) = 11
        /\ SubSeq(result.ops, 1, 9)
             = C18_InitLevel(what_map_char(what_map_char(args.c)))
        /\ SubSeq(result.ops, 10, 11) = <<PushInt(32), Bare("LevelFlags")>>
        /\ result.ops[2] = PushInt(CASE args.c = 73 -> 0
                                     [] args.c = 67 -> 23
                                     [] OTHER -> 127)

\* MAZE: name, '.' has been compiled: the first pass gives ROOM (24), the
\* second what_map_char of the character with code 24
C18_Witness ==
    /\ result.fn = "parse_maze"
    /\ args.c = 46
    /\ result.ops[2] = PushInt(INVALID_TYPE)

-----------------------------------------------------------------------------
(* C19 *)

\* the rows of a raw map block once its digits are dropped
C19_Rows(raw) == split_lines(SelectSeq(raw, LAMBDA c : c \notin 48..57))

\* the byte of a character: what_map_char(ch) + 1, 1 for an unmapped one
C19_Byte(ch) == IF what_map_char(ch) = INVALID_TYPE THEN 1 ELSE what_map_char(ch) + 1

\* C19: scan_map returns (data, height, width) with Len(data) = height *
\* width and every byte in [1, 37]; row r of data holds what_map_char(ch)+1
\* (1 for an unmapped character) for the characters of row r of the block
\* without its digits, then 1s up to width -- for rows of unequal length
\* and characters outside the terrain alphabet, non-ASCII ones included.
C19_ScanMapAsStated ==
    result.fn = "scan_map" =>
        LET m == result.map
            rows == C19_Rows(args.raw)
        IN  /\ m.height = Len(rows)
            /\ Len(m.data) = m.height * m.width
            /\ \A i \in 1..Len(m.data) : m.data[i] \in 1..(MAX_TYPE + 1)
            /\ \A r \in 1..m.height : \A j \in 1..m.width :
                  m.data[(r - 1) * m.width + j]
                    = IF j <= Len(rows[r]) THEN C19_Byte(rows[r][j]) ELSE 1

-----------------------------------------------------------------------------
(* C20 *)

\* C20: when lex succeeds every token, the Map/MapData pair and the final
\* Eof included, has line >= 1 and col >= 1, and the lines of the tokens are
\* non-decreasing along the token vector.
C20_TokenPositions ==
    (result.fn = "lex" /\ result.out.ok) =>
        LET tokens == result.out.tokens
        IN  /\ tokens # <<>> /\ tokens[Len(tokens)].value.k = "Eof"
            /\ \A i \in 1..Len(tokens) : tokens[i].line >= 1 /\ tokens[i].col >= 1
            /\ \A i \in 1..(Len(tokens) - 1) : tokens[i].line <= tokens[i + 1].line

\* lex has succeeded on a text with a token, a MAP block on a later line
\* and a token behind ENDMAP: the token, Map, MapData on the next line, the
\* token on the line after ENDMAP, Eof
C20_Witness ==
    /\ result.fn = "lex" /\ result.out.ok
    /\ \E i \in 2..(Len(result.out.tokens) - 3) :
         /\ result.out.tokens[i - 1].line < result.out.tokens[i].line
         /\ result.out.tokens[i].value.k = "Map"
         /\ result.out.tokens[i + 1].value.k = "MapData"
         /\ result.out.tokens[i + 1].line = result.out.tokens[i].line + 1
         /\ result.out.tokens[i + 2].line = result.out.tokens[i].line + 2
         /\ result.out.tokens[i + 3].value.k = "Eof"

-----------------------------------------------------------------------------
(* C21 *)

\* the line terminators among the first n characters of input: '\n', and
\* '\r' unless a '\n' follows it
C21_Terminators(input, n) ==
    {i \in 1..n : \/ input[i] = "\n"
                  \/ input[i] = "\r" /\ ~(i < Len(input) /\ input[i + 1] = "\n")}

\* the index of the last character of a line terminator among the first n
C21_LineStart(input, n) ==
    LET T == {i \in 1..n : input[i] \in {"\n", "\r"}}
    IN  IF T = {} THEN 0 ELSE CHOOSE i \in T : \A j \in T : j <= i

\* every token pushed by the turns of lex from st on is located at the
\* character the turn starts with
RECURSIVE C21_Located(_, _)
C21_Located(st, input) ==
    IF ~st.ok \/ st.rest = <<>> THEN TRUE
    ELSE LET off == Len(input) - Len(st.rest)
             nx == LexTurn(st)
         IN  /\ (nx.ok /\ Len(nx.tokens) > Len(st.tokens)) =>
                   LET tok == nx.tokens[Len(st.tokens) + 1]
                   IN  /\ tok.line = 1 + Cardinality(C21_Terminators(input, off))
                       /\ tok.col = 1 + off - C21_LineStart(input, off)
             /\ C21_Located(nx, input)

\* C21: each token is located at its first character: its line is 1 plus
\* the number of line terminators ('\r', '\n', or '\r\n' counted as one)
\* before that character, and its column counts from 1 behind the last of
\* them, also for tokens behind a string literal of several lines, a
\* comment, a bracketed percent literal and a MAP block.
C21_TokenAtFirstChar ==
    (result.fn = "lex" /\ result.out.ok) =>
        C21_Located(LexStart(Flatten(args.chunks)), Flatten(args.chunks))

-----------------------------------------------------------------------------
(* C22 *)

\* C22: behind '[', if the non-whitespace characters up to the next '%'
\* parse as a signed integer n and a ']' follows behind that '%', the lexer
\* consumes the bracketed form up to that ']' and emits the one token
\* Percent(n); otherwise it emits LBracket and consumes only the '[' --
\* with any amount of whitespace inside the brackets.
C22_BracketAsStated ==
    (result.fn = "lex" /\ args.chunks # <<>> /\ Head(Flatten(args.chunks)) = "[") =>
        LET input == Flatten(args.chunks)
            behind == Tail(input)
            p == FirstIndex(behind, "%")
            n == SelectSeq(SubSeq(behind, 1, p - 1), LAMBDA c : ~is_whitespace(c))
            q == FirstIndex(Drop(behind, p), "]")
            st == LexTurn(LexStart(input))
        IN  IF p > 0 /\ q > 0 /\ ParsesI64(n)
            THEN /\ st.tokens = <<Located([k |-> "Percent", s |-> n], 1, 1)>>
                 /\ st.rest = Drop(behind, p + q)
            ELSE /\ st.tokens = <<Located([k |-> "LBracket", s |-> <<>>], 1, 1)>>
                 /\ st.rest = behind

-----------------------------------------------------------------------------
(* C23 *)

\* s behind its first line terminator ('\r\n', '\n' or '\r'); <<>> if none
C23_NextLine(s) ==
    LET r == Drop(s, Len(TakeUntil(s, {"\n", "\r"})))
    IN  IF r = <<>> THEN r
        ELSE IF Head(r) = "\r" /\ Len(r) >= 2 /\ r[2] = "\n" THEN Drop(r, 2)
        ELSE Drop(r, 1)

\* the lines from s on up to the line that trims to ENDMAP: the lines
\* before it, and the text behind it; found is FALSE if the input ends first
RECURSIVE C23_Block(_, _)
C23_Block(s, lines) ==
    LET line == TakeUntil(s, {"\n", "\r"})
    IN  IF trim(line) = <<"E", "N", "D", "M", "A", "P">>
        THEN [found |-> TRUE, lines |-> lines, rest |-> C23_NextLine(s)]
        ELSE IF Len(line) = Len(s) THEN [found |-> FALSE, lines |-> lines, rest |-> <<>>]
        ELSE C23_Block(C23_NextLine(s), Append(lines, line))

\* lines joined by line feeds
RECURSIVE C23_Join(_)
C23_Join(lines) ==
    IF lines = <<>> THEN <<>>
    ELSE IF Len(lines) = 1 THEN lines[1]
    ELSE lines[1] \o <<"\n">> \o C23_Join(Tail(lines))

\* C23: the identifier MAP switches to line mode: the rest of the MAP line
\* is discarded, the following lines are accumulated verbatim, joined by
\* line feeds, until a line that trims to ENDMAP, and exactly the two tokens
\* Map at the MAP position and MapData(accumulated) at the next line, column
\* 1, are emitted; if the input ends before such a line, lex fails with
\* "unterminated MAP block" and returns no tokens. Stated for texts that
\* start with the identifier MAP.
C23_MapBlockAsStated ==
    (/\ result.fn = "lex"
     /\ TakeWord(Flatten(args.chunks), {"_", "-"}) = <<"M", "A", "P">>) =>
        LET input == Flatten(args.chunks)
            st == LexTurn(LexStart(input))
            has_line == Len(TakeUntil(input, {"\n", "\r"})) < Len(input)
            blk == C23_Block(C23_NextLine(input), <<>>)
        IN  IF has_line /\ blk.found
            THEN /\ st.ok
                 /\ st.tokens = <<Located([k |-> "Map", s |-> <<>>], 1, 1),
                                  Located([k |-> "MapData", s |-> C23_Join(blk.lines)], 2, 1)>>
                 /\ st.rest = blk.rest
            ELSE /\ ~result.out.ok
                 /\ result.out.err = "unterminated MAP block"
                 /\ result.out.tokens = <<>>

-----------------------------------------------------------------------------
(* C24 *)

\* the messages of the four declared lex errors
C24_Errors ==
    {"unterminated string", "unterminated char literal", "unexpected '!'",
     "unterminated MAP block"}

\* C24: lex returns one of its four errors (unterminated string,
\* unterminated or malformed character literal, '!' not followed by '=',
\* MAP block without ENDMAP), and on every other input -- with unrecognized
\* characters, with digit runs of any length -- a token vector that ends
\* with exactly one Eof token.
C24_ErrOrEofAsStated ==
    result.fn = "lex" =>
        \/ /\ result.out.ok
           /\ result.out.tokens # <<>>
           /\ \A i \in 1..Len(result.out.tokens) :
                 (result.out.tokens[i].value.k = "Eof") <=> (i = Len(result.out.tokens))
        \/ /\ ~result.out.ok
           /\ result.out.err \in C24_Errors

-----------------------------------------------------------------------------
(* The bytecode decoder: lev_reader.rs.  Data is a sequence of bytes. *)

VERSION_HEADER_SIZE == 40

SPOVAR_NULL == 0
SPOVAR_INT == 1
SPOVAR_STRING == 2
SPOVAR_VARIABLE == 3
SPOVAR_COORD == 4
SPOVAR_REGION == 5
SPOVAR_MAPCHAR == 6
SPOVAR_MONST == 7
SPOVAR_OBJ == 8
SPOVAR_SEL == 9

\* the codes of SpOpcode: Null = 0, ..., SelComplement = 75, without a gap
SpOpcodeNull == 0
SpOpcodePush == 40
SpOpcodeSelComplement == 75

\* the value of no opcode
NoOpcode == -1

\* SpOpcode::from_repr, of a u8
from_repr(b) == IF b \in SpOpcodeNull..SpOpcodeSelComplement THEN b ELSE NoOpcode

Zeros(n) == [i \in 1..n |-> 0]

\* a 64-bit word is kept as its eight little-endian bytes
Word(b1, b2, b3, b4) == <<b1, b2, b3, b4, 0, 0, 0, 0>>

\* i32::from_le_bytes(b) as usize, where it is at most bound; bound + 1 where
\* it is more (a negative i32 becomes a usize above every length)
AsUsize(b, bound) ==
    IF b[4] >= 128 THEN bound + 1
    ELSE LET v == b[1] + 256 * b[2] + 65536 * b[3] + 16777216 * b[4]
         IN  IF v > bound THEN bound + 1 ELSE v

\* Reader::read_bytes, Reader::skip: whether n bytes remain
Remains(rest, n) == Len(rest) >= n

LevErr(kind) == [kind |-> "err", err |-> kind]

\* std::str::from_utf8 succeeds, for the one-byte and two-byte forms
RECURSIVE is_utf8(_)
is_utf8(bs) ==
    IF bs = <<>> THEN TRUE
    ELSE IF bs[1] < 128 THEN is_utf8(Tail(bs))
    ELSE IF bs[1] \in 194..223 /\ Len(bs) >= 2 /\ bs[2] \in 128..191
         THEN is_utf8(Drop(bs, 2))
    ELSE FALSE

RegionOperand(x1, y1, x2, y2) ==
    [t |-> "Region", x1 |-> x1, y1 |-> y1, x2 |-> x2, y2 |-> y2]

MapCharOperand(typ, lit) == [t |-> "MapChar", typ |-> typ, lit |-> lit]

\* packed & SP_COORD_IS_RANDOM != 0: bit 24 is the lowest bit of the fourth byte
unpack_coord(w) ==
    IF w[4] % 2 = 1
    THEN CoordOperand(-1, -1, TRUE, w[1])
    ELSE CoordOperand(w[1], w[3], FALSE, 0)

unpack_region(w) == RegionOperand(w[1], w[2], w[3], w[4])

\* (((packed >> 8) & 0xFFFF) - 10) as i16
Unbias(w) == AsI16(w[2] + 256 * w[3] - 10)

unpack_mapchar(w) == MapCharOperand(w[1], Unbias(w))

unpack_monst(w) == MonstOperand(w[1], Unbias(w))

unpack_obj(w) == ObjOperand(w[1], Unbias(w))

\* the payload behind the tag of a Push: [kind |-> "ok", operand, rest] or an error
ReadBlob(rest, t) ==
    IF ~Remains(rest, 4) THEN LevErr("UnexpectedEof")
    ELSE LET len == AsUsize(SubSeq(rest, 1, 4), Len(rest))
             r2 == Drop(rest, 4)
         IN  IF ~Remains(r2, len) THEN LevErr("UnexpectedEof")
             ELSE LET bytes == SubSeq(r2, 1, len)
                  IN  IF t # "Sel" /\ ~is_utf8(bytes) THEN LevErr("InvalidUtf8")
                      ELSE [kind |-> "ok", operand |-> [t |-> t, bytes |-> bytes],
                            rest |-> Drop(r2, len)]

ReadWord(rest, spovartyp) ==
    IF ~Remains(rest, 8) THEN LevErr("UnexpectedEof")
    ELSE LET w == SubSeq(rest, 1, 8)
         IN  [kind |-> "ok",
              operand |-> CASE spovartyp = SPOVAR_INT -> [t |-> "Int", le |-> w]
                            [] spovartyp = SPOVAR_COORD -> unpack_coord(w)
                            [] spovartyp = SPOVAR_REGION -> unpack_region(w)
                            [] spovartyp = SPOVAR_MAPCHAR -> unpack_mapchar(w)
                            [] spovartyp = SPOVAR_MONST -> unpack_monst(w)
                            [] OTHER -> unpack_obj(w),
              rest |-> Drop(rest, 8)]

ReadOperand(rest) ==
    IF ~Remains(rest, 1) THEN LevErr("UnexpectedEof")
    ELSE LET spovartyp == rest[1]
             r2 == Tail(rest)
         IN  CASE spovartyp = SPOVAR_NULL ->
                    [kind |-> "ok", operand |-> NoOperand, rest |-> r2]
               [] spovartyp \in {SPOVAR_INT, SPOVAR_COORD, SPOVAR_REGION,
                                 SPOVAR_MAPCHAR, SPOVAR_MONST, SPOVAR_OBJ} ->
                    ReadWord(r2, spovartyp)
               [] spovartyp = SPOVAR_STRING -> ReadBlob(r2, "String")
               [] spovartyp = SPOVAR_VARIABLE -> ReadBlob(r2, "Variable")
               [] spovartyp = SPOVAR_SEL -> ReadBlob(r2, "Sel")
               [] OTHER -> LevErr("UnknownSpovartyp")

\* SpOpcode::from_repr(raw_opcode as u8): `as u8` keeps the lowest byte of
\* the four bytes of the code
DecodeOpcode(raw) == from_repr(raw[1])

\* the body of the loop of read_lev, n times: [kind |-> "ok", opcodes] or an
\* error; raw is history, the four bytes the opcode was decoded from
RECURSIVE ReadRecords(_, _, _)
ReadRecords(rest, n, acc) ==
    IF n = 0 THEN [kind |-> "ok", opcodes |-> acc]
    ELSE IF ~Remains(rest, 4) THEN LevErr("UnexpectedEof")
    ELSE LET raw == SubSeq(rest, 1, 4)
             opcode == DecodeOpcode(raw)
             r2 == Drop(rest, 4)
         IN  IF opcode = NoOpcode THEN LevErr("UnknownOpcode")
             ELSE IF opcode = SpOpcodePush
             THEN LET o == ReadOperand(r2)
                  IN  IF o.kind # "ok" THEN o
                      ELSE ReadRecords(o.rest, n - 1,
                               Append(acc, [opcode |-> opcode, operand |-> o.operand,
                                            raw |-> raw]))
             ELSE ReadRecords(r2, n - 1,
                      Append(acc, [opcode |-> opcode, operand |-> NoOperand,
                                   raw |-> raw]))

\* Vec::with_capacity(n_opcodes as usize) panics with `capacity overflow`
\* when the bytes asked for exceed isize::MAX: an SpLevOpcode takes 16 bytes
\* at the least, so a count from 2^59 on does, and so does a negative count,
\* which is 2^63 at the least as usize
CapacityOverflow(c) == c[8] >= 8

\* a count below 2^24, whose allocation is taken to succeed; the allocation
\* for a larger count succeeds or aborts the process as the host decides
AllocCertain(c) == \A i \in 4..8 : c[i] = 0

\* the iterations of `for _ in 0..n_opcodes`, where that is at most bound;
\* bound + 1 where it is more
LoopCount(c, bound) ==
    IF \A i \in 5..8 : c[i] = 0 THEN AsUsize(SubSeq(c, 1, 4), bound) ELSE bound + 1

\* read_lev(data): the set of its outcomes, [kind |-> "ok", opcodes],
\* [kind |-> "err", err], [kind |-> "panic"] or [kind |-> "abort"]
read_lev(data) ==
    IF ~Remains(data, VERSION_HEADER_SIZE) THEN {LevErr("UnexpectedEof")}
    ELSE LET r1 == Drop(data, VERSION_HEADER_SIZE)
         IN  IF ~Remains(r1, 8) THEN {LevErr("UnexpectedEof")}
             ELSE LET n_opcodes == SubSeq(r1, 1, 8)
                      body == Drop(r1, 8)
                      run == ReadRecords(body, LoopCount(n_opcodes, Len(body)), <<>>)
                  IN  IF CapacityOverflow(n_opcodes) THEN {[kind |-> "panic"]}
                      ELSE IF AllocCertain(n_opcodes) THEN {run}
                      ELSE {run, [kind |-> "abort"]}

\* the opcode counts of the inputs: 0, 1, 2, 3, -1, 2^32, 2^62
Counts ==
    { Word(0, 0, 0, 0), Word(1, 0, 0, 0), Word(2, 0, 0, 0), Word(3, 0, 0, 0),
      <<255, 255, 255, 255, 255, 255, 255, 255>>,
      <<0, 0, 0, 0, 1, 0, 0, 0>>, <<0, 0, 0, 0, 0, 0, 0, 64>> }

\* the bodies of the inputs are made of up to MaxRecChunks of these pieces:
\* opcode codes 2, 258, 76 and 40 (Push), and tagged payloads
RecChunks ==
    { <<2, 0, 0, 0>>, <<2, 1, 0, 0>>, <<76, 0, 0, 0>>, <<SpOpcodePush, 0, 0, 0>>,
      <<SPOVAR_NULL>>,
      <<SPOVAR_INT>> \o Word(7, 0, 0, 0),
      <<SPOVAR_STRING, 1, 0, 0, 0, 97>>,
      <<SPOVAR_VARIABLE, 1, 0, 0, 0, 255>>,
      <<SPOVAR_STRING, 255, 255, 255, 255>>,
      <<SPOVAR_REGION>> \o Word(255, 255, 255, 255),
      <<SPOVAR_MONST>> \o Word(255, 255, 255, 0),
      <<SPOVAR_SEL, 1, 0, 0, 0, 255>>,
      <<10>> }

MaxRecChunks == 3

\* the inputs of read_lev: a header of 40 bytes or none, a count, and n
\* pieces
ReadLevCalls(n) ==
    [fn : {"read_lev"}, header : {0, VERSION_HEADER_SIZE},
     count : Counts, chunks : [1..n -> RecChunks]]

LevData(a) == Zeros(a.header) \o a.count \o Flatten(a.chunks)

read_lev_call ==
    /\ args.fn = "read_lev" /\ result = NoCall
    /\ \E out \in read_lev(LevData(args)) : result' = [fn |-> "read_lev", out |-> out]
    /\ UNCHANGED <<parser_vars, args>>

\* Operand packing, spec-modelled: the layouts of the 64-bit words as the
\* specification gives them (no packer is among the sources).  A field of n
\* bits holds its value modulo 2^n.
pack_coord(o) ==
    IF o.is_random THEN Word(o.flags % 256, 0, 0, 1)
    ELSE Word(o.x % 256, 0, o.y % 256, 0)

pack_region(o) == Word(o.x1 % 256, o.y1 % 256, o.x2 % 256, o.y2 % 256)

\* bits [8..24) = v + 10
Bias(b1, v) ==
    LET m == (v + 10) % 65536 IN Word(b1 % 256, m % 256, m \div 256, 0)

pack_mapchar(o) == Bias(o.typ, o.lit)

pack_monst(o) == Bias(o.class, o.id)

pack_obj(o) == Bias(o.class, o.id)

pack(o) ==
    CASE o.t = "Coord" -> pack_coord(o)
      [] o.t = "Region" -> pack_region(o)
      [] o.t = "MapChar" -> pack_mapchar(o)
      [] o.t = "Monst" -> pack_monst(o)
      [] OTHER -> pack_obj(o)

unpack(t, w) ==
    CASE t = "Coord" -> unpack_coord(w)
      [] t = "Region" -> unpack_region(w)
      [] t = "MapChar" -> unpack_mapchar(w)
      [] t = "Monst" -> unpack_monst(w)
      [] OTHER -> unpack_obj(w)

\* parse_halign, parse_valign: what the alignment words stand for
HAligns == {1, 2, 3, 4, 5, -1}
VAligns == {1, 3, 5, -1}

\* integers written in a coordinate or a region, ids found in a name table,
\* class characters, terrain codes of what_map_char
CoordInts == {0, 5, 79}
TableIds == {0, 5, 380}
ClassChars == {64, 100}
TerrainCodes == {0, 24, 36, 127}

\* the operands the parser emits
EmittedCoords ==
    {CoordOperand(-1, -1, TRUE, 0)}
    \cup {CoordOperand(x, y, FALSE, 0) : x \in CoordInts, y \in CoordInts}
    \cup {CoordOperand(h, v, FALSE, 0) : h \in HAligns, v \in VAligns}

EmittedRegions ==
    {RegionOperand(-1, -1, -1, -1)}
    \cup {RegionOperand(x1, y1, x2, y2) : x1 \in {0, 5}, y1 \in {0, 5},
                                          x2 \in {5, 79}, y2 \in {5, 20}}

EmittedMapChars ==
    {MapCharOperand(-1, -1)}
    \cup {MapCharOperand(c, lit) : c \in TerrainCodes, lit \in {1, 0, -1}}

EmittedMonsts ==
    {MonstOperand(255, -11)}
    \cup {MonstOperand(c, id) : c \in ClassChars, id \in TableIds \cup {-1}}

EmittedObjs ==
    {ObjOperand(255, -11)}
    \cup {ObjOperand(c, id) : c \in ClassChars, id \in TableIds \cup {-1}}

RoundTripCalls ==
    [fn : {"round_trip"},
     operand : EmittedCoords \cup EmittedRegions \cup EmittedMapChars
               \cup EmittedMonsts \cup EmittedObjs]

\* an operand is packed and the word is unpacked
round_trip_call ==
    /\ args.fn = "round_trip" /\ result = NoCall
    /\ result' = [fn |-> "round_trip",
                  out |-> unpack(args.operand.t, pack(args.operand))]
    /\ UNCHANGED <<parser_vars, args>>

InitDecoder ==
    /\ ParserNew
    /\ \/ \E n \in 0..MaxRecChunks : args \in ReadLevCalls(n)
       \/ args \in RoundTripCalls
    /\ result = NoCall

NextDecoder ==
    \/ read_lev_call
    \/ round_trip_call

SpecDecoder == InitDecoder /\ [][NextDecoder]_vars_all

-----------------------------------------------------------------------------
(* C25 *)

\* the 32-bit opcode code of a record is one of the defined codes 0..75
C25_Defined(raw) ==
    /\ raw[1] \in SpOpcodeNull..SpOpcodeSelComplement
    /\ raw[2] = 0 /\ raw[3] = 0 /\ raw[4] = 0

\* C25: a record whose 32-bit opcode code is outside 0..75 is never decoded
\* as a defined opcode, whatever its upper three bytes are: the records
\* read_lev returns all carry a code in 0..75.
C25_UnknownOpcodeAsStated ==
    (result.fn = "read_lev" /\ result.out.kind = "ok") =>
        \A i \in 1..Len(result.out.opcodes) : C25_Defined(result.out.opcodes[i].raw)

-----------------------------------------------------------------------------
(* C26 *)

\* C26: packing an operand the parser emits and unpacking the word gives
\* the operand back, for every Coord, Region, MapChar, Monst and Obj, the
\* sentinels -1 and -11 and the operands of WALLIFY, GEOMETRY and random map
\* characters included.
C26_RoundTripAsStated ==
    result.fn = "round_trip" => result.out = args.operand

-----------------------------------------------------------------------------
(* C30 *)

\* the four declared errors of the decoder
C30_Errors == {"UnexpectedEof", "UnknownOpcode", "UnknownSpovartyp", "InvalidUtf8"}

\* C30: read_lev is total on byte sequences: it returns exactly `count`
\* decoded records or one of its four declared errors and never aborts, also
\* when the count is negative or larger than the data that remains.
C30_TotalAsStated ==
    result.fn = "read_lev" =>
        \/ /\ result.out.kind = "ok"
           /\ Len(result.out.opcodes)
                  = LoopCount(args.count, Len(Flatten(args.chunks)))
        \/ /\ result.out.kind = "err"
           /\ result.out.err \in C30_Errors

-----------------------------------------------------------------------------
(* C27 *)

\* the parser has returned: Ok(DesFile) or Err
C27_Returned == pc \in {"done", "error"}

-----------------------------------------------------------------------------
(* C28 *)

\* every jump of ops is preceded by Push(Int d) and lands inside ops or
\* right behind its last opcode
C28_Inside(ops) ==
    \A j \in 0..(Len(ops) - 1) :
        At(ops, j).opcode \in JumpOpcodes =>
            /\ IsPushInt(ops, j - 1)
            /\ j + At(ops, j - 1).operand.i >= 0
            /\ j + At(ops, j - 1).operand.i <= Len(ops)

\* C28: in every level a successful parse returns, every jump stays inside
\* the level: for the jump at index j, preceded by Push(Int d),
\* 0 <= j + d <= the number of opcodes of the level.
C28_JumpsStayInside == \A i \in 1..Len(levels) : C28_Inside(levels[i].opcodes)

\* a returned level with a forward jump to its very end and a backward jump
\* to an earlier opcode
C28_Witness ==
    /\ pc = "done"
    /\ \E i \in 1..Len(levels) :
         LET ops == levels[i].opcodes
         IN  \E j \in 1..(Len(ops) - 1), k \in 1..(Len(ops) - 1) :
                /\ At(ops, j).opcode \in JumpOpcodes
                /\ j + At(ops, j - 1).operand.i = Len(ops)
                /\ At(ops, k).opcode \in JumpOpcodes
                /\ At(ops, k - 1).operand.i < 0

-----------------------------------------------------------------------------
(* C29 *)

\* C29: nothing that is compiled is dropped: when parse returns Ok, every
\* opcode that was emitted is in a level of the DesFile, so none is left in
\* the accumulator -- also for statements before any header and for a
\* header with an empty level name.
C29_NothingDropped == pc = "done" => opcodes = <<>>

====
